---- MODULE Spec2Model ----
(***************************************************************************)
(* The after-hours scheduler of GradeReporter                              *)
(* (src/src/features/after_hours/repository.py, class AfterHoursSystem):   *)
(* the teachers, availability and tickets tables, and the operations       *)
(* add_teacher, set_availability, find_next_available_slot and             *)
(* submit_ticket.                                                          *)
(*                                                                         *)
(* Time.  An instant is a number of seconds since Monday 2018-10-22        *)
(* 00:00:00 UTC.  A Python datetime is a record [kind, wall, off]: its     *)
(* wall-clock fields as seconds since the same Monday 00:00 read on the    *)
(* wall clock, and for an aware datetime the UTC offset of its tzinfo.     *)
(* The instant of an aware datetime is wall - off.  Two pytz zones are     *)
(* modelled with the transition each has on Sunday 2018-11-04.             *)
(*                                                                         *)
(* Tables.  A table is the sequence of its rows in insertion order.  The   *)
(* columns that no code of the class reads back (name, email, submitter_*, *)
(* question, submitted_at_utc, ticket_notes) are left out of the rows.     *)
(*                                                                         *)
(* The session manager (src/src/core/session.py, class SessionManager):    *)
(* the two keys it keeps in Streamlit's session_state, the wall clock that *)
(* datetime.now() reads, in minutes, and the operations init_session,      *)
(* login, logout and is_logged_in.                                         *)
(*                                                                         *)
(* The services on the main database (config/database.py, db_manager):     *)
(* ParentEngagementService with its repository                             *)
(* (src/src/features/parent_engagement).  The main database is one record  *)
(* of tables, each the sequence of its rows in rowid order; an INTEGER      *)
(* PRIMARY KEY AUTOINCREMENT column gets the next number never used.  A     *)
(* text is the sequence of its characters.  AuthenticationService and       *)
(* LowGradeAlertService read and write the same database.                  *)
(*                                                                         *)
(* AfterHoursService (src/src/features/after_hours/service.py): its        *)
(* configuration and the repository it was constructed with, which is an   *)
(* interface only and is held as the records handed to create_request.     *)
(***************************************************************************)
EXTENDS Integers, Sequences, FiniteSets, TLC

VARIABLES teachers, availability, tickets, uuid_seq, pc, frame, last,
          session_state, clock, called, db, reply, service

\* The variables of the after-hours scheduler, of the session manager and of
\* the services (the main database, the reply of the last call, and the
\* AfterHoursService object), and all of them.
avars == <<teachers, availability, tickets, uuid_seq, pc, frame, last>>
svars == <<session_state, clock, called>>
mvars == <<db, reply, service>>
vars == <<teachers, availability, tickets, uuid_seq, pc, frame, last,
          session_state, clock, called, db, reply, service>>

(* ------------------------------ bounds -------------------------------- *)
\* The rows the three tables hold together, tickets of calls in flight
\* included, and the number of concurrent callers.
MaxRows == 4
NumProcs == 2
\* The windows of the teacher whose searches SpecFind explores.
MaxWindows == 2
\* The minutes the wall clock of SpecSession runs.
MaxClock == 64
\* The submit_ticket calls of SpecQueue, and the tickets of SpecPair.
MaxTickets == 5
MaxPairTickets == 3
\* The rows of the EngagementRequests table.
MaxRequests == 2
\* The children of the parent who signs in.
MaxChildren == 2
\* The records the after-hours repository receives.
MaxHoursRequests == 1
\* The rows of the Alerts table.
MaxAlerts == 2

(* ------------------------- units and calendar ------------------------- *)
Minute == 60
Hour == 60 * Minute
Day == 24 * Hour

\* search_days: int = 14
DefaultSearchDays == 14

\* LOW_GRADE_THRESHOLD = 70.0 and DECLINING_TREND_GRADE_COUNT = 3
LowGradeThreshold == 70
DecliningTrendGradeCount == 3

None == [kind |-> "none", wall |-> 0, off |-> 0]
Naive(w) == [kind |-> "naive", wall |-> w, off |-> 0]
Aware(w, o) == [kind |-> "aware", wall |-> w, off |-> o]

\* The UTC instant an aware datetime denotes (what ==, < and hash() of two
\* aware datetimes compare).
Instant(dt) == dt.wall - dt.off

\* pytz: America/New_York leaves daylight time (-04:00 -> -05:00) at
\* 2018-11-04 06:00 UTC; America/Sao_Paulo enters it (-03:00 -> -02:00) at
\* 2018-11-04 03:00 UTC.
Timezones == {"America/New_York", "America/Sao_Paulo"}
TransitionUtc(tzname) ==
  IF tzname = "America/New_York" THEN 13 * Day + 6 * Hour ELSE 13 * Day + 3 * Hour
OffsetBefore(tzname) ==
  IF tzname = "America/New_York" THEN 0 - 4 * Hour ELSE 0 - 3 * Hour
OffsetAfter(tzname) ==
  IF tzname = "America/New_York" THEN 0 - 5 * Hour ELSE 0 - 2 * Hour
\* The offset pytz localize() prefers with is_dst=False: the zone's standard time.
StdOffset(tzname) ==
  IF tzname = "America/New_York" THEN OffsetAfter(tzname) ELSE OffsetBefore(tzname)
UtcOffset(tzname, u) ==
  IF u < TransitionUtc(tzname) THEN OffsetBefore(tzname) ELSE OffsetAfter(tzname)

\* dt.astimezone(tz) of an aware datetime.
AsTimezone(dt, tzname) ==
  LET u == Instant(dt)
      o == UtcOffset(tzname, u)
  IN  Aware(u + o, o)

\* dt.astimezone(pytz.UTC) of an aware datetime.
AsUtc(dt) == Aware(Instant(dt), 0)

\* tz.localize(naive) with the default is_dst=False: the offset under which
\* the wall time exists; the standard-time offset when it exists under both
\* (the repeated hour) or under none (the skipped hour).
Localize(w, tzname) ==
  LET valid == {o \in {OffsetBefore(tzname), OffsetAfter(tzname)} :
                  UtcOffset(tzname, w - o) = o}
  IN  IF Cardinality(valid) = 1
      THEN Aware(w, CHOOSE o \in valid : TRUE)
      ELSE Aware(w, StdOffset(tzname))

\* dt.weekday(), Monday = 0, and the calendar date as a day number.
DateOf(dt) == dt.wall \div Day
Weekday(dt) == DateOf(dt) % 7

\* dt.replace(second=0, microsecond=0)
TruncMinute(dt) == [dt EXCEPT !.wall = dt.wall - (dt.wall % Minute)]

\* _parse_hm: "HH:MM" text, held as the number HHMM, to (hh, mm).
ParseHm(hm) == <<hm \div 100, hm % 100>>

\* A normalisation that reads a naive datetime as New York daylight time.
NormalizeUtcAsLocal(t, now) ==
  IF t.kind = "none" THEN Aware(now, 0)
  ELSE IF t.kind = "naive" THEN Aware(t.wall + 4 * Hour, 0)
  ELSE Aware(t.wall - t.off, 0)

\* _now_utc() and the normalisation of an optional datetime argument:
\* None -> now, naive -> the same fields marked UTC, aware -> converted to UTC.
NormalizeUtc(t, now) ==
  IF t.kind = "none" THEN Aware(now, 0)
  ELSE IF t.kind = "naive" THEN Aware(t.wall, 0)
  ELSE AsUtc(t)

\* isoformat() of a datetime, and datetime.fromisoformat() of the stored text:
\* the text carries the wall fields, and the offset when the datetime is aware
\* ("2018-11-04T04:30:00+00:00"); a text without offset parses to a naive one.
IsoFormat(dt) == [null |-> FALSE, kind |-> dt.kind, wall |-> dt.wall, off |-> dt.off]
FromIsoFormat(s) == [kind |-> s.kind, wall |-> s.wall, off |-> s.off]
\* The SQL NULL of the scheduled_slot_utc column.
NullSlot == [null |-> TRUE, kind |-> "none", wall |-> 0, off |-> 0]

\* The zone of the process (TZ, /etc/localtime) that astimezone() presumes for
\* a naive datetime, and the mark of a call that converted no naive datetime.
LocalZones == {"UTC", "America/New_York"}
NotRead == "not read"

\* utcoffset() of the system zone for naive wall fields (fold = 0): the offset
\* before the transition when the wall time exists under it or under none.
SystemOffset(w, zone) ==
  IF zone = "UTC" THEN 0
  ELSE IF w - OffsetBefore(zone) < TransitionUtc(zone) THEN OffsetBefore(zone)
  ELSE IF w - OffsetAfter(zone) >= TransitionUtc(zone) THEN OffsetAfter(zone)
  ELSE OffsetBefore(zone)

\* datetime.fromisoformat(text).astimezone(pytz.UTC): an aware datetime is
\* converted, a naive one is presumed to be in the system zone.
StoredAsUtc(dt, local_zone) ==
  IF dt.kind = "naive"
  THEN Aware(dt.wall - SystemOffset(dt.wall, local_zone), 0)
  ELSE AsUtc(dt)

(* ------------------------------ the tables ---------------------------- *)
NoTeacher == [teacher_id |-> 0, timezone |-> "none"]

\* A lookup whose miss goes unnoticed.
TeacherMissingNever(teacher) == FALSE

\* if not teacher: raise ValueError("Teacher not found")
TeacherMissing(teacher) == teacher = NoTeacher

\* get_teacher: the teachers row of the id, or None.
GetTeacher(T, teacher_id) ==
  LET rows == SelectSeq(T, LAMBDA r : r.teacher_id = teacher_id)
  IN  IF rows = <<>> THEN NoTeacher ELSE rows[1]

\* A SELECT without its WHERE clause: every teacher's rows.
GetAvailabilityDfAll(A, teacher_id) == A

\* _get_availability_df: the teacher's availability rows, in the order the
\* SELECT (which has no ORDER BY) returns them: insertion order.
GetAvailabilityDf(A, teacher_id) ==
  SelectSeq(A, LAMBDA r : r.teacher_id = teacher_id)

\* Booked starts read without the teacher_id of the WHERE clause: every
\* teacher's slots.
ScheduledLocalStartsAll(K, teacher_id, tzname, local_zone) ==
  { TruncMinute(AsTimezone(StoredAsUtc(FromIsoFormat(K[i].scheduled_slot_utc), local_zone),
                           tzname)) :
      i \in { j \in 1..Len(K) : ~K[j].scheduled_slot_utc.null } }

\* The teacher's booked starts: every non-NULL scheduled_slot_utc of the
\* teacher, parsed, converted to UTC, then to the teacher's zone, truncated
\* to the minute.  (Every stored text is an ISO text, with or without offset,
\* so the except branch that skips unparsable rows is never taken.)
ScheduledLocalStarts(K, teacher_id, tzname, local_zone) ==
  { TruncMinute(AsTimezone(StoredAsUtc(FromIsoFormat(K[i].scheduled_slot_utc), local_zone),
                           tzname)) :
      i \in { j \in 1..Len(K) : /\ K[j].teacher_id = teacher_id
                                 /\ ~K[j].scheduled_slot_utc.null } }

(* ---------------------- find_next_available_slot ---------------------- *)
\* A search that stops one day short: range(0, search_days).
LastDayOffsetShort(search_days) == search_days - 1

\* A search that runs a week past the horizon: range(0, search_days + 8).
LastDayOffsetWeekPast(search_days) == search_days + 7

\* range(0, search_days + 1): the last day offset tried.
LastDayOffset(search_days) == search_days

\* tz.localize(datetime(local_candidate's date, hour=sh, minute=sm))
LocalStart(local_candidate, win, tzname) ==
  LET hm == ParseHm(win.start_hm)
  IN  Localize(DateOf(local_candidate) * Day + hm[1] * Hour + hm[2] * Minute, tzname)

\* A search without the check against the requested instant.
InPastNever(local_start_dt, now_local) == FALSE

\* local_start_dt < now_local
InPast(local_start_dt, now_local) == Instant(local_start_dt) < Instant(now_local)

\* A search that ignores the booked starts.
IsTakenNever(local_start_dt, starts) == FALSE

\* local_start_dt.replace(second=0, microsecond=0) in scheduled_local_starts
IsTaken(local_start_dt, starts) ==
  \E s \in starts : Instant(s) = Instant(TruncMinute(local_start_dt))

\* The inner loop over the day's windows, from row i on: the first start
\* that is neither in the past nor taken, or None.
RECURSIVE ScanWindows(_, _, _, _, _, _)
ScanWindows(day_windows, i, local_candidate, tzname, start_utc, starts) ==
  IF i > Len(day_windows) THEN None
  ELSE LET local_start_dt == LocalStart(local_candidate, day_windows[i], tzname)
           now_local == AsTimezone(start_utc, tzname)
       IN  IF InPast(local_start_dt, now_local)
           THEN ScanWindows(day_windows, i + 1, local_candidate, tzname, start_utc, starts)
           ELSE IF IsTaken(local_start_dt, starts)
           THEN ScanWindows(day_windows, i + 1, local_candidate, tzname, start_utc, starts)
           ELSE local_start_dt

\* The outer loop over the day offsets, from day_offset on.
RECURSIVE ScanDays(_, _, _, _, _, _)
ScanDays(avail_df, day_offset, search_days, tzname, start_utc, starts) ==
  IF day_offset > LastDayOffset(search_days) THEN None
  ELSE LET day_candidate_utc == Aware(start_utc.wall + day_offset * Day, 0)
           local_candidate == AsTimezone(day_candidate_utc, tzname)
           weekday == Weekday(local_candidate)
           day_windows == SelectSeq(avail_df, LAMBDA w : w.weekday = weekday)
           found == ScanWindows(day_windows, 1, local_candidate, tzname, start_utc, starts)
       IN  IF found # None THEN found
           ELSE ScanDays(avail_df, day_offset + 1, search_days, tzname, start_utc, starts)

Raised(err) == [kind |-> err, slot |-> None]
Returned(slot) == [kind |-> "ok", slot |-> slot]

\* find_next_available_slot on the tables T, A, K; now is what _now_utc()
\* would read and local_zone the zone of the process.
FindNextAvailableSlot(T, A, K, teacher_id, from_time_utc, search_days, now, local_zone) ==
  LET teacher == GetTeacher(T, teacher_id)
  IN  IF TeacherMissing(teacher) THEN Raised("ValueError")
      ELSE LET tzname == teacher.timezone
               start_utc == NormalizeUtc(from_time_utc, now)
               avail_df == GetAvailabilityDf(A, teacher_id)
           IN  IF avail_df = <<>> THEN Returned(None)
               ELSE Returned(ScanDays(avail_df, 0, search_days, tzname, start_utc,
                                      ScheduledLocalStarts(K, teacher_id, tzname,
                                                           local_zone)))

\* The passes the inner loop makes over the day's windows from row i on: one
\* for every row up to and including the one whose start is returned.
RECURSIVE WindowsExamined(_, _, _, _, _, _)
WindowsExamined(day_windows, i, local_candidate, tzname, start_utc, starts) ==
  IF i > Len(day_windows) THEN 0
  ELSE LET local_start_dt == LocalStart(local_candidate, day_windows[i], tzname)
           now_local == AsTimezone(start_utc, tzname)
       IN  IF InPast(local_start_dt, now_local) \/ IsTaken(local_start_dt, starts)
           THEN 1 + WindowsExamined(day_windows, i + 1, local_candidate, tzname,
                                    start_utc, starts)
           ELSE 1

\* The passes of the two loops from day_offset on: the day offsets visited
\* and the window starts examined, up to the return.
RECURSIVE LoopPasses(_, _, _, _, _, _)
LoopPasses(avail_df, day_offset, search_days, tzname, start_utc, starts) ==
  IF day_offset > LastDayOffset(search_days) THEN [days |-> 0, candidates |-> 0]
  ELSE LET day_candidate_utc == Aware(start_utc.wall + day_offset * Day, 0)
           local_candidate == AsTimezone(day_candidate_utc, tzname)
           weekday == Weekday(local_candidate)
           day_windows == SelectSeq(avail_df, LAMBDA w : w.weekday = weekday)
           found == ScanWindows(day_windows, 1, local_candidate, tzname, start_utc, starts)
           examined == WindowsExamined(day_windows, 1, local_candidate, tzname,
                                       start_utc, starts)
       IN  IF found # None THEN [days |-> 1, candidates |-> examined]
           ELSE LET rest == LoopPasses(avail_df, day_offset + 1, search_days, tzname,
                                       start_utc, starts)
                IN  [days |-> 1 + rest.days, candidates |-> examined + rest.candidates]

\* The loop passes of one find_next_available_slot call: none when the call
\* raises or returns before the loops.
SearchPasses(T, A, K, teacher_id, from_time_utc, search_days, now, local_zone) ==
  LET teacher == GetTeacher(T, teacher_id)
  IN  IF TeacherMissing(teacher) THEN [days |-> 0, candidates |-> 0]
      ELSE LET tzname == teacher.timezone
               start_utc == NormalizeUtc(from_time_utc, now)
               avail_df == GetAvailabilityDf(A, teacher_id)
           IN  IF avail_df = <<>> THEN [days |-> 0, candidates |-> 0]
               ELSE LoopPasses(avail_df, 0, search_days, tzname, start_utc,
                               ScheduledLocalStarts(K, teacher_id, tzname, local_zone))

(* ------------------------------- inputs ------------------------------- *)
\* Monday 2018-10-29 13:00:00 UTC (09:00 in New York), the same plus 30 s,
\* Sunday 2018-10-28 03:10 UTC (00:10 in Sao Paulo) and Sunday 2018-11-04
\* 04:15 UTC (00:15 in New York, before the repeated hour; 02:15 in Sao Paulo,
\* after the skipped one).
MonNine == 7 * Day + 13 * Hour
MonNineLate == MonNine + 30
SunEarly == 6 * Day + 3 * Hour + 10 * Minute
SunShift == 13 * Day + 4 * Hour + 15 * Minute

\* What _now_utc() reads when the time argument is None.
Clock == {MonNineLate}
\* The datetime arguments: None (the clock is read), a naive datetime, and
\* an aware one in a zone other than UTC.
TimeArgs ==
  {None, Naive(MonNine), Aware(SunShift - 4 * Hour, 0 - 4 * Hour)}
SearchDaysArgs == {0, DefaultSearchDays}
Questions == {"  ", "help"}
\* weekday 0 is Monday, 6 is Sunday; start_hm and end_hm as HHMM.
WindowArgs ==
  {[weekday |-> 0, start_hm |-> 900, end_hm |-> 1200],
   [weekday |-> 0, start_hm |-> 1400, end_hm |-> 1700],
   [weekday |-> 6, start_hm |-> 30, end_hm |-> 1000]}
\* The ids of the teachers stored, and one that no teacher has.
TeacherIdArgs == 1..(Len(teachers) + 1)
\* The zone of the process as far as a search can tell: it is read only when
\* a slot of the teacher is stored without offset.
ZoneReads(K, teacher_id) ==
  IF \E i \in 1..Len(K) : /\ K[i].teacher_id = teacher_id
                          /\ ~K[i].scheduled_slot_utc.null
                          /\ K[i].scheduled_slot_utc.kind = "naive"
  THEN LocalZones ELSE {NotRead}
\* Rows stored or about to be: every uuid drawn for a ticket counts.
RowsUsed == Len(teachers) + Len(availability) + (uuid_seq - 1)
Procs == 1..NumProcs

(* --------------------------- SessionManager --------------------------- *)
\* SESSION_TIMEOUT_MINUTES = int(os.getenv('SESSION_TIMEOUT_MINUTES', '30'))
SessionTimeoutMinutes == 30

\* Python's None as user data and as a time, and the user_data dictionaries
\* login is given.
NoUser == [user_id |-> 0, role |-> "none"]
NoTime == 0 - 1
UserData == {[user_id |-> 1, role |-> "student"], [user_id |-> 2, role |-> "teacher"]}

\* st.session_state at the start of a browser session: neither key is set.
\* keys is the set of the keys set; a key that is not set holds no value (the
\* None of the record is a filler that nothing reads).
EmptySessionState ==
  [keys |-> {}, current_session |-> NoUser, last_activity |-> NoTime]

\* The SessionManager call that returned last: the user data given to login
\* (for is_logged_in, the current_session it read), the last_activity that
\* is_logged_in read, the boolean it returned, and the clock reading of the call.
NoSessionCall ==
  [op |-> "none", user |-> NoUser, since |-> NoTime, result |-> FALSE, at |-> 0]

InitSessionState ==
  /\ session_state = EmptySessionState
  /\ clock = 0
  /\ called = NoSessionCall

\* An init_session that assigns None to both keys whether they are set or not.
InitSessionResetting(st) ==
  [keys |-> {"current_session", "last_activity"},
   current_session |-> NoUser, last_activity |-> NoTime]

\* init_session as a function of the state: each key that is not set is set
\* to None, a key that is set keeps its value.
InitSessionOf(st) ==
  [keys |-> {"current_session", "last_activity"},
   current_session |-> IF "current_session" \in st.keys THEN st.current_session ELSE NoUser,
   last_activity |-> IF "last_activity" \in st.keys THEN st.last_activity ELSE NoTime]

\* A logout that clears the user and leaves last_activity as it was.
LogoutKeepingActivity(st) ==
  [keys |-> st.keys \cup {"current_session"},
   current_session |-> NoUser, last_activity |-> st.last_activity]

\* logout as a function of the state: both keys are set to None.
LogoutOf(st) ==
  [keys |-> {"current_session", "last_activity"},
   current_session |-> NoUser, last_activity |-> NoTime]

\* A timeout that already strikes when the gap equals the limit.
TimedOutInclusive(now, last_activity) == now - last_activity >= SessionTimeoutMinutes

\* datetime.now() - last_activity > timedelta(minutes=SESSION_TIMEOUT_MINUTES)
TimedOut(now, last_activity) == now - last_activity > SessionTimeoutMinutes

\* SessionManager.init_session()
InitSession ==
  /\ session_state' = InitSessionOf(session_state)
  /\ called' = [NoSessionCall EXCEPT !.op = "init_session", !.at = clock]
  /\ UNCHANGED <<clock, teachers, availability, tickets, uuid_seq, pc, frame, last>>
  /\ UNCHANGED mvars

\* SessionManager.login(user_data)
Login(user_data) ==
  /\ session_state' = [InitSessionOf(session_state) EXCEPT
                         !.current_session = user_data, !.last_activity = clock]
  /\ called' = [NoSessionCall EXCEPT !.op = "login", !.user = user_data, !.at = clock]
  /\ UNCHANGED <<clock, teachers, availability, tickets, uuid_seq, pc, frame, last>>
  /\ UNCHANGED mvars

\* SessionManager.logout()
Logout ==
  /\ session_state' = LogoutOf(session_state)
  /\ called' = [NoSessionCall EXCEPT !.op = "logout", !.at = clock]
  /\ UNCHANGED <<clock, teachers, availability, tickets, uuid_seq, pc, frame, last>>
  /\ UNCHANGED mvars

\* SessionManager.is_logged_in(): False without a user; False, after a
\* logout, when last_activity is set and lies more than the timeout back;
\* else last_activity becomes the clock reading and the answer is True.
IsLoggedIn ==
  /\ LET st == InitSessionOf(session_state)
         call == [NoSessionCall EXCEPT !.op = "is_logged_in", !.at = clock,
                                       !.user = st.current_session,
                                       !.since = st.last_activity]
     IN  IF st.current_session = NoUser
         THEN /\ session_state' = st
              /\ called' = [call EXCEPT !.result = FALSE]
         ELSE IF st.last_activity # NoTime /\ TimedOut(clock, st.last_activity)
         THEN /\ session_state' = LogoutOf(st)
              /\ called' = [call EXCEPT !.result = FALSE]
         ELSE /\ session_state' = [st EXCEPT !.last_activity = clock]
              /\ called' = [call EXCEPT !.result = TRUE]
  /\ UNCHANGED <<clock, teachers, availability, tickets, uuid_seq, pc, frame, last>>
  /\ UNCHANGED mvars

\* Time passes between two calls: half the timeout, or a minute more.
TickArgs == {SessionTimeoutMinutes \div 2, SessionTimeoutMinutes \div 2 + 1}
Tick(d) ==
  /\ clock + d <= MaxClock
  /\ clock' = clock + d
  /\ UNCHANGED <<session_state, called, teachers, availability, tickets, uuid_seq,
                 pc, frame, last>>
  /\ UNCHANGED mvars

NextSession ==
  \/ InitSession
  \/ \E u \in UserData : Login(u)
  \/ Logout
  \/ IsLoggedIn
  \/ \E d \in TickArgs : Tick(d)

(* -------------------------- the main database ------------------------- *)
\* A text of n characters c, Python's None where a text is optional, and
\* the truth value Python gives an optional text.
Text(c, n) == [i \in 1..n |-> c]
NoText == <<0>>
Truthy(text) == text # NoText /\ text # <<>>

\* str.strip(): leading and trailing whitespace is dropped.
RECURSIVE Strip(_)
Strip(text) ==
  IF text = <<>> THEN text
  ELSE IF Head(text) = " " THEN Strip(Tail(text))
  ELSE IF text[Len(text)] = " " THEN Strip(SubSeq(text, 1, Len(text) - 1))
  ELSE text

\* str.replace(pattern, ''): every occurrence, found from the left without
\* overlap, is dropped.
RECURSIVE Replace(_, _)
Replace(text, pattern) ==
  IF Len(text) < Len(pattern) THEN text
  ELSE IF SubSeq(text, 1, Len(pattern)) = pattern
  THEN Replace(SubSeq(text, Len(pattern) + 1, Len(text)), pattern)
  ELSE <<Head(text)>> \o Replace(Tail(text), pattern)

\* sanitize_input: strip, then drop ';--', '/*', '*/', 'xp_' and 'sp_', in
\* that order.
SanitizeInput(text) ==
  Replace(Replace(Replace(Replace(Replace(Strip(text),
    <<";", "-", "-">>), <<"/", "*">>), <<"*", "/">>), <<"x", "p", "_">>), <<"s", "p", "_">>)

\* The tables of the main database, all empty.
EmptyDb ==
  [Users |-> <<>>, Students |-> <<>>, Parents |-> <<>>, Teachers |-> <<>>,
   Parent_Student |-> <<>>, Courses |-> <<>>, Grades |-> <<>>,
   EngagementRequests |-> <<>>, Alerts |-> <<>>]

\* Python's None where an id is optional, and where authenticate returns no
\* dictionary.
NoId == 0
NoSessionData == [user_id |-> NoId]

\* The service call that returned last: its operation, the arguments it was
\* given, how it ended (kind "ok" or the exception raised), what it returned
\* (success, result, data), and the repository methods it called, in order.
NoReply ==
  [op |-> "none", kind |-> "none", request_id |-> 0, teacher_id |-> 0,
   success |-> FALSE, result |-> 0, email |-> "", password |-> <<>>,
   data |-> NoSessionData, lookups |-> <<>>, student_id |-> NoId,
   parent_id |-> NoId, message |-> <<>>, now |-> 0, alert_id |-> 0,
   created |-> <<>>]

\* AfterHoursConfig.from_env() with no variable set, and the service
\* constructed with it and a repository that has received nothing.
EnvConfig ==
  [feature_enabled |-> FALSE, start_time |-> 17 * Hour, end_time |-> 21 * Hour,
   timezone |-> "America/Chicago"]
ServiceOf(config) == [config |-> config, repository |-> <<>>]

InitMainState ==
  /\ db = EmptyDb
  /\ reply = NoReply
  /\ service = ServiceOf(EnvConfig)

\* INTEGER PRIMARY KEY AUTOINCREMENT: one more than the largest id of the
\* table (no statement of the application deletes rows).
RECURSIVE MaxOf(_)
MaxOf(S) ==
  IF S = {} THEN 0
  ELSE LET x == CHOOSE y \in S : TRUE
           m == MaxOf(S \ {x})
       IN  IF x > m THEN x ELSE m
NextRequestId(table) == MaxOf({table[i].request_id : i \in 1..Len(table)}) + 1

\* cursor.rowcount after the INSERT: the number of rows the statement added.
InsertRowcount(before, after) == Len(after) - Len(before)

(* ---------------------- ParentEngagementRepository -------------------- *)
\* create_engagement_request: the INSERT through db_manager.execute_update,
\* whose return value the method returns.  status takes its DEFAULT 'pending'
\* and teacher_response is NULL.
CreateEngagementRequest(D, parent_id, teacher_id, student_id, request_type, subject, message, preferred_times) ==
  LET row == [request_id |-> NextRequestId(D.EngagementRequests),
              parent_id |-> parent_id, teacher_id |-> teacher_id,
              student_id |-> student_id, request_type |-> request_type,
              subject |-> subject, message |-> message,
              preferred_times |-> preferred_times, status |-> "pending",
              teacher_response |-> NoText]
      after == Append(D.EngagementRequests, row)
  IN  [db |-> [D EXCEPT !.EngagementRequests = after],
       result |-> InsertRowcount(D.EngagementRequests, after)]

\* The user rows that the JOINs of get_request_by_id need.
HasUser(D, user_id) == \E i \in 1..Len(D.Users) : D.Users[i].user_id = user_id
ParentJoins(D, parent_id) ==
  \E i \in 1..Len(D.Parents) :
    D.Parents[i].parent_id = parent_id /\ HasUser(D, D.Parents[i].user_id)
TeacherJoins(D, teacher_id) ==
  \E i \in 1..Len(D.Teachers) :
    D.Teachers[i].teacher_id = teacher_id /\ HasUser(D, D.Teachers[i].user_id)
StudentJoins(D, student_id) ==
  \E i \in 1..Len(D.Students) :
    D.Students[i].student_id = student_id /\ HasUser(D, D.Students[i].user_id)

\* get_request_by_id: the request joined with its parent, teacher and
\* student and their users, or None.
NoRequest == [request_id |-> 0]
GetRequestById(D, request_id) ==
  LET rows == SelectSeq(D.EngagementRequests,
                        LAMBDA r : /\ r.request_id = request_id
                                   /\ ParentJoins(D, r.parent_id)
                                   /\ TeacherJoins(D, r.teacher_id)
                                   /\ StudentJoins(D, r.student_id))
  IN  IF rows = <<>> THEN NoRequest ELSE rows[1]

\* Python's None where a status is optional (an empty status counts the same:
\* "if status:").
NoStatus == "None"
\* status TEXT ... CHECK(status IN ('pending', 'approved', 'rejected'))
StatusAllowed(status) == status \in {"pending", "approved", "rejected"}

\* update_request_status: UPDATE ... SET status = ? WHERE request_id = ?
UpdateRequestStatus(D, request_id, status) ==
  [D EXCEPT !.EngagementRequests =
     [i \in 1..Len(@) |-> IF @[i].request_id = request_id
                          THEN [@[i] EXCEPT !.status = status] ELSE @[i]]]

\* add_teacher_response: with a status, response and status are set; without
\* one, the response alone.
AddTeacherResponse(D, request_id, response, status) ==
  [D EXCEPT !.EngagementRequests =
     [i \in 1..Len(@) |->
        IF @[i].request_id = request_id
        THEN IF status # NoStatus
             THEN [@[i] EXCEPT !.teacher_response = response, !.status = status]
             ELSE [@[i] EXCEPT !.teacher_response = response]
        ELSE @[i]]]

(* ----------------------- ParentEngagementService ---------------------- *)
\* validate_request_data: the error messages, here their number.
ValidateRequestData(request_type, subject, message, preferred_times) ==
  (IF request_type \notin {"meeting", "message"} THEN 1 ELSE 0)
  + (IF ~Truthy(subject) \/ Len(Strip(subject)) < 3 THEN 1
     ELSE IF Len(subject) > 200 THEN 1 ELSE 0)
  + (IF ~Truthy(message) \/ Len(Strip(message)) < 10 THEN 1
     ELSE IF Len(message) > 2000 THEN 1 ELSE 0)
  + (IF request_type = "meeting"
        /\ (~Truthy(preferred_times) \/ Len(Strip(preferred_times)) < 5)
     THEN 1 ELSE 0)

\* ParentEngagementService.create_request
ParentCreateRequest(parent_id, teacher_id, student_id, request_type, subject, message, preferred_times) ==
  /\ Len(db.EngagementRequests) < MaxRequests
  /\ IF ValidateRequestData(request_type, subject, message, preferred_times) > 0
     THEN /\ reply' = [NoReply EXCEPT !.op = "create_request", !.kind = "ValueError",
                                      !.teacher_id = teacher_id]
          /\ UNCHANGED db
     ELSE LET subject_clean == SanitizeInput(subject)
              message_clean == SanitizeInput(message)
              preferred_times_clean ==
                IF Truthy(preferred_times) THEN SanitizeInput(preferred_times)
                ELSE NoText
              r == CreateEngagementRequest(db, parent_id, teacher_id, student_id,
                                           request_type, subject_clean, message_clean,
                                           preferred_times_clean)
          IN  /\ db' = r.db
              /\ reply' = [NoReply EXCEPT !.op = "create_request", !.kind = "ok",
                                          !.teacher_id = teacher_id,
                                          !.success = TRUE, !.result = r.result]
  /\ UNCHANGED service
  /\ UNCHANGED avars
  /\ UNCHANGED svars

\* A check that lets every teacher act on a request that exists.
UnauthorizedOnlyMissing(request, teacher_id) == request = NoRequest

\* not request or request['teacher_id'] != teacher_id
Unauthorized(request, teacher_id) ==
  request = NoRequest \/ request.teacher_id # teacher_id

\* approve_request and reject_request: the status is set when the request is
\* found and is the teacher's.
SetStatus(op, request_id, teacher_id, status) ==
  /\ LET request == GetRequestById(db, request_id)
         call == [NoReply EXCEPT !.op = op, !.kind = "ok",
                                 !.request_id = request_id, !.teacher_id = teacher_id]
     IN  IF Unauthorized(request, teacher_id)
         THEN /\ reply' = [call EXCEPT !.success = FALSE]
              /\ UNCHANGED db
         ELSE /\ db' = UpdateRequestStatus(db, request_id, status)
              /\ reply' = [call EXCEPT !.success = TRUE]
  /\ UNCHANGED service
  /\ UNCHANGED avars
  /\ UNCHANGED svars
ApproveRequest(request_id, teacher_id) ==
  SetStatus("approve_request", request_id, teacher_id, "approved")
RejectRequest(request_id, teacher_id) ==
  SetStatus("reject_request", request_id, teacher_id, "rejected")

\* respond_to_request: a response of at least 10 characters is sanitised and
\* stored, with the new status if one is given; a status that the CHECK
\* constraint refuses makes the UPDATE fail (sqlite3.IntegrityError).
RespondToRequest(request_id, teacher_id, response, new_status) ==
  /\ LET request == GetRequestById(db, request_id)
         call == [NoReply EXCEPT !.op = "respond_to_request", !.kind = "ok",
                                 !.request_id = request_id, !.teacher_id = teacher_id]
     IN  IF Unauthorized(request, teacher_id)
         THEN /\ reply' = [call EXCEPT !.success = FALSE]
              /\ UNCHANGED db
         ELSE IF ~Truthy(response) \/ Len(Strip(response)) < 10
         THEN /\ reply' = [call EXCEPT !.success = FALSE]
              /\ UNCHANGED db
         ELSE IF new_status # NoStatus /\ ~StatusAllowed(new_status)
         THEN /\ reply' = [call EXCEPT !.kind = "IntegrityError"]
              /\ UNCHANGED db
         ELSE /\ db' = AddTeacherResponse(db, request_id, SanitizeInput(response),
                                          new_status)
              /\ reply' = [call EXCEPT !.success = TRUE]
  /\ UNCHANGED service
  /\ UNCHANGED avars
  /\ UNCHANGED svars

\* The school the engagement requests are about: a parent (user 1), two
\* teachers (users 2 and 3) and a student (user 4), as create_test_db.py
\* stores them, and no request yet.
SchoolDb ==
  [EmptyDb EXCEPT
     !.Users = <<[user_id |-> 1, role |-> "parent"], [user_id |-> 2, role |-> "teacher"],
                 [user_id |-> 3, role |-> "teacher"], [user_id |-> 4, role |-> "student"]>>,
     !.Parents = <<[parent_id |-> 1, user_id |-> 1]>>,
     !.Teachers = <<[teacher_id |-> 1, user_id |-> 2], [teacher_id |-> 2, user_id |-> 3]>>,
     !.Students = <<[student_id |-> 1, user_id |-> 4]>>,
     !.Parent_Student = <<[parent_id |-> 1, student_id |-> 1]>>]

\* The arguments: the ids of the two teachers and one that no teacher has
\* (requests are made to the first teacher and to the one that does not
\* exist); a request type the validation refuses; a subject that is too short;
\* preferred times given or not; a response that is too short; a status the
\* table refuses.
TeacherArgs == 1..3
RequestTeacherArgs == {1, 3}
RequestIdArgs == 1..(Len(db.EngagementRequests) + 1)
RequestTypeArgs == {"meeting", "call"}
SubjectArgs == {Text("s", 2), <<" ">> \o Text("s", 4)}
MessageArgs == {Text("m", 10)}
PreferredTimesArgs == {NoText, Text("t", 5)}
ResponseArgs == {Text("r", 9) \o <<" ">>, Text("r", 10)}
NewStatusArgs == {NoStatus, "approved", "resolved"}

NextEngage ==
  \/ \E t \in RequestTeacherArgs, y \in RequestTypeArgs, s \in SubjectArgs,
        m \in MessageArgs,
        w \in PreferredTimesArgs : ParentCreateRequest(1, t, 1, y, s, m, w)
  \/ \E r \in RequestIdArgs, t \in TeacherArgs : ApproveRequest(r, t)
  \/ \E r \in RequestIdArgs, t \in TeacherArgs : RejectRequest(r, t)
  \/ \E r \in RequestIdArgs, t \in TeacherArgs, x \in ResponseArgs, u \in NewStatusArgs :
        RespondToRequest(r, t, x, u)

(* ---------------------- AuthenticationRepository ---------------------- *)
\* get_user_by_email: the first row of Users with the email, or None.
NoUserRow == [user_id |-> NoId]
GetUserByEmail(D, email) ==
  LET results == SelectSeq(D.Users, LAMBDA u : u.email = email)
  IN  IF results = <<>> THEN NoUserRow ELSE results[1]

\* get_student_id, get_parent_id, get_teacher_id: the id of the first row of
\* the role's table with the user_id, or None.
GetStudentId(D, user_id) ==
  LET results == SelectSeq(D.Students, LAMBDA r : r.user_id = user_id)
  IN  IF results = <<>> THEN NoId ELSE results[1].student_id
GetParentId(D, user_id) ==
  LET results == SelectSeq(D.Parents, LAMBDA r : r.user_id = user_id)
  IN  IF results = <<>> THEN NoId ELSE results[1].parent_id
GetTeacherId(D, user_id) ==
  LET results == SelectSeq(D.Teachers, LAMBDA r : r.user_id = user_id)
  IN  IF results = <<>> THEN NoId ELSE results[1].teacher_id

\* get_parent_student_ids: the student_id of every row of Parent_Student with
\* the parent_id (parent_id = NULL selects no row).
GetParentStudentIds(D, parent_id) ==
  LET results == SelectSeq(D.Parent_Student,
                           LAMBDA r : parent_id # NoId /\ r.parent_id = parent_id)
  IN  [i \in 1..Len(results) |-> results[i].student_id]

(* ------------------------ AuthenticationService ----------------------- *)
\* bcrypt.hashpw(password, salt): a text that carries the scheme, the salt
\* and a digest that two passwords share only if they are equal.
HashPw(password, salt) == <<"$2b$", salt>> \o password

\* bcrypt.checkpw(password, hashed): the password hashed with the salt of
\* hashed is compared with hashed; a text that is no bcrypt hash has no salt
\* to hash with (ValueError: Invalid salt).
InvalidSalt(hashed) == Len(hashed) < 2 \/ hashed[1] # "$2b$"
Checkpw(password, hashed) == HashPw(password, hashed[2]) = hashed

\* A verification that accepts every password.
VerifyPasswordAlways(plain_password, hashed_password) == TRUE

\* _verify_password: checkpw, and False when it raises.
VerifyPassword(plain_password, hashed_password) ==
  IF InvalidSalt(hashed_password) THEN FALSE
  ELSE Checkpw(plain_password, hashed_password)

\* _get_role_specific_data: the dictionary for the role, and the repository
\* methods called for it.
GetRoleSpecificData(D, user_id, role) ==
  IF role = "student"
  THEN [data |-> [student_id |-> GetStudentId(D, user_id)],
        lookups |-> <<"get_student_id">>]
  ELSE IF role = "parent"
  THEN LET parent_id == GetParentId(D, user_id)
       IN  [data |-> [parent_id |-> parent_id,
                      student_ids |-> GetParentStudentIds(D, parent_id)],
            lookups |-> <<"get_parent_id", "get_parent_student_ids">>]
  ELSE IF role = "teacher"
  THEN [data |-> [teacher_id |-> GetTeacherId(D, user_id)],
        lookups |-> <<"get_teacher_id">>]
  ELSE [data |-> <<>>, lookups |-> <<>>]

\* authenticate: None without the user or with a password that does not
\* verify; else the user's fields, updated with the role's dictionary.
Authenticate(email, password) ==
  /\ LET user == GetUserByEmail(db, email)
         call == [NoReply EXCEPT !.op = "authenticate", !.kind = "ok",
                                 !.email = email, !.password = password,
                                 !.lookups = <<"get_user_by_email">>]
     IN  IF user = NoUserRow
         THEN reply' = call
         ELSE IF ~VerifyPassword(password, user.password_hash)
         THEN reply' = call
         ELSE LET role_data == GetRoleSpecificData(db, user.user_id, user.role)
                  session_data == [user_id |-> user.user_id, name |-> user.name,
                                   email |-> user.email, role |-> user.role]
              IN  reply' = [call EXCEPT !.success = TRUE,
                                        !.data = role_data.data @@ session_data,
                                        !.lookups = @ \o role_data.lookups]
  /\ UNCHANGED db
  /\ UNCHANGED service
  /\ UNCHANGED avars
  /\ UNCHANGED svars

\* The users that sign in: Ann (user 1) with a role and a stored password
\* text that vary, and Bob (user 2), a student.  Ann has, or has not, a row in
\* each role table (the role tables are independent of Users.role); as a
\* parent she has up to MaxChildren children, and another parent has one.
Roles == {"student", "parent", "teacher", "admin"}
PasswordArgs == {Text("a", 3), Text("b", 3)}
SaltArgs == 1..2
HashArgs == {HashPw(Text("a", 3), 1), HashPw(Text("b", 3), 2), Text("a", 3)}
EmailArgs == {"ann@example.com", "bob@example.com", "eve@example.com"}
AuthDb(role, hash, linked, children) ==
  [EmptyDb EXCEPT
     !.Users = <<[user_id |-> 1, name |-> "Ann", email |-> "ann@example.com",
                  role |-> role, password_hash |-> hash],
                 [user_id |-> 2, name |-> "Bob", email |-> "bob@example.com",
                  role |-> "student", password_hash |-> HashPw(Text("b", 3), 1)]>>,
     !.Students = <<[student_id |-> 11, user_id |-> 2]>>
                  \o (IF linked THEN <<[student_id |-> 12, user_id |-> 1]>> ELSE <<>>),
     !.Parents = <<[parent_id |-> 22, user_id |-> 2]>>
                 \o (IF linked THEN <<[parent_id |-> 21, user_id |-> 1]>> ELSE <<>>),
     !.Teachers = <<[teacher_id |-> 32, user_id |-> 2]>>
                  \o (IF linked THEN <<[teacher_id |-> 31, user_id |-> 1]>> ELSE <<>>),
     !.Parent_Student = [i \in 1..children |-> [parent_id |-> 21, student_id |-> 10 + i]]
                        \o <<[parent_id |-> 22, student_id |-> 11]>>]

NextAuth ==
  \E email \in EmailArgs, password \in PasswordArgs : Authenticate(email, password)

(* -------------------------- AfterHoursService ------------------------- *)
\* datetime.now(ZoneInfo(tz)) at the instant now, dt.time() as seconds since
\* midnight, and dt.isoformat(), which holds the wall-clock fields and the
\* offset.
ZoneNow(tzname, now) == AsTimezone(Aware(now, 0), tzname)
TimeOf(dt) == dt.wall % Day
Isoformat(dt) == <<dt.wall, dt.off>>

\* A window that is closed at its end time.
IsWithinWindowExclusive(config, now) ==
  IF ~config.feature_enabled THEN FALSE
  ELSE LET current_time == TimeOf(ZoneNow(config.timezone, now))
       IN  config.start_time <= current_time /\ current_time < config.end_time

\* AfterHoursConfig.is_within_window() without an argument, called at the
\* instant now: START <= time <= END on the wall clock of the zone.
IsWithinWindow(config, now) ==
  IF ~config.feature_enabled THEN FALSE
  ELSE LET current_time == TimeOf(ZoneNow(config.timezone, now))
       IN  config.start_time <= current_time /\ current_time <= config.end_time

\* can_use_feature
CanUseFeature(config) == config.feature_enabled

\* AfterHoursService.create_request, called at the instant now; _now() reads
\* the clock again, later seconds after the window was checked.
AfterHoursCreateRequest(student_id, parent_id, course_id, teacher_id, requested_for, message, now, later) ==
  /\ Len(service.repository) < MaxHoursRequests
  /\ LET call == [NoReply EXCEPT !.op = "after_hours.create_request",
                                 !.student_id = student_id, !.parent_id = parent_id,
                                 !.teacher_id = teacher_id, !.message = message,
                                 !.now = now]
         raise == [call EXCEPT !.kind = "ValueError"]
     IN  IF ~CanUseFeature(service.config)
         THEN reply' = raise /\ UNCHANGED service
         ELSE IF ~IsWithinWindow(service.config, now)
         THEN reply' = raise /\ UNCHANGED service
         ELSE IF Strip(message) = <<>>
         THEN reply' = raise /\ UNCHANGED service
         ELSE IF student_id = NoId /\ parent_id = NoId
         THEN reply' = raise /\ UNCHANGED service
         ELSE LET stamp == Isoformat(ZoneNow(service.config.timezone, now + later))
                  payload ==
                    [student_id |-> student_id, parent_id |-> parent_id,
                     teacher_id |-> teacher_id, course_id |-> course_id,
                     requested_for |-> IF Truthy(requested_for)
                                       THEN Strip(requested_for) ELSE NoText,
                     message |-> Strip(message), status |-> "open",
                     created_at |-> stamp, updated_at |-> stamp]
              IN  /\ service' = [service EXCEPT !.repository = Append(@, payload)]
                  /\ reply' = [call EXCEPT !.kind = "ok", !.success = TRUE]
  /\ UNCHANGED db
  /\ UNCHANGED avars
  /\ UNCHANGED svars

\* The configurations: the feature on or off, the window 17:00-21:00 or one
\* whose end is before its start, in either zone.  The calls come a second
\* before, at, and a second after the start and the end of the first window
\* on Monday 2018-10-22 in one zone or the other; the message is blank or
\* not; the student, the parent or neither is named.
ConfigArgs ==
  {[feature_enabled |-> e, start_time |-> w[1], end_time |-> w[2], timezone |-> z] :
     e \in BOOLEAN, w \in {<<17 * Hour, 21 * Hour>>, <<21 * Hour, 2 * Hour>>},
     z \in Timezones}
NowArgs ==
  {20 * Hour - 1, 20 * Hour, 21 * Hour - 1, 24 * Hour, 24 * Hour + 1, 25 * Hour,
   25 * Hour + 1}
RequesterArgs == {<<NoId, NoId>>, <<1, NoId>>, <<NoId, 2>>}
RequestedForArgs == {<<>>, <<" ">> \o Text("t", 2)}
HoursMessageArgs == {Text(" ", 2), <<" ">> \o Text("m", 2) \o <<" ">>}

NextHours ==
  \E who \in RequesterArgs, f \in RequestedForArgs, m \in HoursMessageArgs,
     now \in NowArgs, later \in 0..1 :
       AfterHoursCreateRequest(who[1], who[2], 1, 1, f, m, now, later)

(* ----------------------- LowGradeAlertRepository ---------------------- *)
\* ORDER BY c.course_id, g.date_assigned DESC; rows that agree on both come
\* in rowid order.
GradeBefore(a, b) ==
  \/ a.course_id < b.course_id
  \/ /\ a.course_id = b.course_id
     /\ \/ a.date_assigned > b.date_assigned
        \/ a.date_assigned = b.date_assigned /\ a.grade_id < b.grade_id
RECURSIVE OrderGrades(_)
OrderGrades(rows) ==
  IF rows = {} THEN <<>>
  ELSE LET first == CHOOSE a \in rows : \A b \in rows \ {a} : GradeBefore(a, b)
       IN  <<first>> \o OrderGrades(rows \ {first})

\* get_student_grades: the student's grades whose course exists (JOIN
\* Courses), in that order.
GetStudentGrades(D, student_id) ==
  OrderGrades({D.Grades[i] : i \in {j \in 1..Len(D.Grades) :
     /\ D.Grades[j].student_id = student_id
     /\ \E k \in 1..Len(D.Courses) : D.Courses[k].course_id = D.Grades[j].course_id}})

\* A lookup that finds the dismissed alerts instead of the open ones.
CheckExistingAlertDismissed(D, student_id, alert_type, course_id) ==
  \E i \in 1..Len(D.Alerts) :
    /\ D.Alerts[i].student_id = student_id /\ D.Alerts[i].alert_type = alert_type
    /\ D.Alerts[i].course_id = course_id /\ D.Alerts[i].dismissed = 1

\* check_existing_alert: whether a row with the student, the type and the
\* course has dismissed = 0.
CheckExistingAlert(D, student_id, alert_type, course_id) ==
  \E i \in 1..Len(D.Alerts) :
    /\ D.Alerts[i].student_id = student_id /\ D.Alerts[i].alert_type = alert_type
    /\ D.Alerts[i].course_id = course_id /\ D.Alerts[i].dismissed = 0

\* create_alert: the INSERT through db_manager.execute_update, whose return
\* value the method returns; dismissed takes its DEFAULT 0.
NextAlertId(table) == MaxOf({table[i].alert_id : i \in 1..Len(table)}) + 1
CreateAlert(D, student_id, alert_type, course_id) ==
  LET row == [alert_id |-> NextAlertId(D.Alerts), student_id |-> student_id,
              alert_type |-> alert_type, course_id |-> course_id, dismissed |-> 0]
      after == Append(D.Alerts, row)
  IN  [db |-> [D EXCEPT !.Alerts = after], result |-> InsertRowcount(D.Alerts, after)]

\* get_alerts_for_student: the student's alerts with the dismissed flag.
GetAlertsForStudent(D, student_id, dismissed) ==
  SelectSeq(D.Alerts, LAMBDA a : /\ a.student_id = student_id
                                 /\ a.dismissed = (IF dismissed THEN 1 ELSE 0))

\* dismiss_alert: UPDATE Alerts SET dismissed = 1 WHERE alert_id = ?
DismissAlertRow(D, alert_id) ==
  [D EXCEPT !.Alerts = [i \in 1..Len(@) |-> IF @[i].alert_id = alert_id
                                            THEN [@[i] EXCEPT !.dismissed = 1]
                                            ELSE @[i]]]

\* GradeRepository.update_grade: a grade outside 0..100 is refused; else the
\* UPDATE runs and its rowcount is returned.
UpdateGradeRow(D, grade_id, new_grade) ==
  [D EXCEPT !.Grades = [i \in 1..Len(@) |-> IF @[i].grade_id = grade_id
                                            THEN [@[i] EXCEPT !.grade = new_grade]
                                            ELSE @[i]]]

(* ------------------------- LowGradeAlertService ----------------------- *)
\* _check_declining_trend: the three latest grades, oldest first, each lower
\* than the one before.
CheckDecliningTrend(course_grades) ==
  IF Len(course_grades) < DecliningTrendGradeCount THEN FALSE
  ELSE LET recent == [i \in 1..DecliningTrendGradeCount |->
                        course_grades[DecliningTrendGradeCount + 1 - i].grade]
       IN  \A i \in 2..Len(recent) : ~(recent[i] >= recent[i - 1])

\* The body of the loop over the courses for one course: the low-grade alert,
\* then the declining-trend alert, each unless one exists.
CheckCourse(D, student_id, course_id, course_grades) ==
  LET latest_grade == course_grades[1].grade
      low == /\ latest_grade < LowGradeThreshold
             /\ ~CheckExistingAlert(D, student_id, "low_grade", course_id)
      r1 == IF low THEN CreateAlert(D, student_id, "low_grade", course_id)
            ELSE [db |-> D, result |-> 0]
      declining == /\ Len(course_grades) >= DecliningTrendGradeCount
                   /\ CheckDecliningTrend(course_grades)
                   /\ ~CheckExistingAlert(r1.db, student_id, "declining_trend", course_id)
      r2 == IF declining THEN CreateAlert(r1.db, student_id, "declining_trend", course_id)
            ELSE [db |-> r1.db, result |-> 0]
  IN  [db |-> r2.db,
       created |-> (IF low THEN <<[alert_id |-> r1.result, type |-> "low_grade"]>>
                    ELSE <<>>)
                   \o (IF declining
                       THEN <<[alert_id |-> r2.result, type |-> "declining_trend"]>>
                       ELSE <<>>)]

\* The loop over the courses, in the order in which the grades name them.
RECURSIVE CheckCourses(_, _, _, _)
CheckCourses(D, student_id, grades, done) ==
  LET rest == SelectSeq(grades, LAMBDA g : g.course_id \notin done)
  IN  IF rest = <<>> THEN [db |-> D, created |-> <<>>]
      ELSE LET course_id == rest[1].course_id
               course_grades == SelectSeq(rest, LAMBDA g : g.course_id = course_id)
               r == CheckCourse(D, student_id, course_id, course_grades)
               more == CheckCourses(r.db, student_id, grades, done \cup {course_id})
           IN  [db |-> more.db, created |-> r.created \o more.created]

\* check_and_create_alerts
CheckAndCreateAlerts(student_id) ==
  /\ LET grades == GetStudentGrades(db, student_id)
         r == CheckCourses(db, student_id, grades, {})
     IN  /\ Len(r.db.Alerts) <= MaxAlerts
         /\ db' = r.db
         /\ reply' = [NoReply EXCEPT !.op = "check_and_create_alerts", !.kind = "ok",
                                     !.student_id = student_id, !.created = r.created]
  /\ UNCHANGED service
  /\ UNCHANGED avars
  /\ UNCHANGED svars

\* dismiss_alert: the alert must be among the student's open alerts.
DismissAlert(alert_id, student_id) ==
  /\ LET alerts == GetAlertsForStudent(db, student_id, FALSE)
         call == [NoReply EXCEPT !.op = "dismiss_alert", !.kind = "ok",
                                 !.student_id = student_id, !.alert_id = alert_id]
     IN  IF ~(\E i \in 1..Len(alerts) : alerts[i].alert_id = alert_id)
         THEN /\ reply' = [call EXCEPT !.success = FALSE]
              /\ UNCHANGED db
         ELSE /\ db' = DismissAlertRow(db, alert_id)
              /\ reply' = [call EXCEPT !.success = TRUE]
  /\ UNCHANGED service
  /\ UNCHANGED avars
  /\ UNCHANGED svars

\* A teacher changes a grade (GradeRepository.update_grade).
UpdateGrade(grade_id, new_grade) ==
  /\ LET call == [NoReply EXCEPT !.op = "update_grade", !.kind = "ok"]
     IN  IF new_grade < 0 \/ new_grade > 100
         THEN /\ reply' = [call EXCEPT !.success = FALSE]
              /\ UNCHANGED db
         ELSE /\ db' = UpdateGradeRow(db, grade_id, new_grade)
              /\ reply' = [call EXCEPT !.success = TRUE]
  /\ UNCHANGED service
  /\ UNCHANGED avars
  /\ UNCHANGED svars

\* The grades: student 1 has three grades in course 1, of which the two
\* latest change, and student 2 has one grade in course 2; no alert yet.
GradesDb ==
  [EmptyDb EXCEPT
     !.Courses = <<[course_id |-> 1, course_name |-> "Mathematics"],
                   [course_id |-> 2, course_name |-> "Science"]>>,
     !.Grades = <<[grade_id |-> 1, student_id |-> 1, course_id |-> 1, grade |-> 90,
                   date_assigned |-> 1],
                  [grade_id |-> 2, student_id |-> 1, course_id |-> 1, grade |-> 80,
                   date_assigned |-> 2],
                  [grade_id |-> 3, student_id |-> 1, course_id |-> 1, grade |-> 60,
                   date_assigned |-> 3],
                  [grade_id |-> 4, student_id |-> 2, course_id |-> 2, grade |-> 80,
                   date_assigned |-> 1]>>]
StudentArgs == 1..2
AlertIdArgs == 1..(Len(db.Alerts) + 1)
GradeIdArgs == 2..4
GradeArgs == {60, 70, 80, 101}

NextAlerts ==
  \/ \E s \in StudentArgs : CheckAndCreateAlerts(s)
  \/ \E a \in AlertIdArgs, s \in StudentArgs : DismissAlert(a, s)
  \/ \E g \in GradeIdArgs, x \in GradeArgs : UpdateGrade(g, x)

(* ------------------------------- state -------------------------------- *)
\* An identifier source that repeats itself.
Uuid4Fixed(n) == 1

\* uuid.uuid4(): the n-th identifier drawn; no two draws agree.
Uuid4(n) == n

IdleFrame ==
  [teacher_id |-> 0, time |-> None, now |-> 0, question |-> "", ticket_id |-> 0,
   local_zone |-> NotRead, submit_time |-> None, proposed_slot_local |-> None,
   scheduled_slot_utc |-> NullSlot, status |-> ""]

\* The call that returned last, with its arguments and what the caller got
\* (kind "ok" or the exception raised); kind "running" while a submit_ticket
\* that has not returned was the last to start.
NoCall ==
  [op |-> "none", proc |-> 0, teacher_id |-> 0, time |-> None, now |-> 0,
   search_days |-> 0, local_zone |-> NotRead, question |-> "", kind |-> "none",
   slot |-> None, ticket_id |-> 0, status |-> ""]

\* AfterHoursSystem(): the three tables exist and are empty.
Init ==
  /\ teachers = <<>>
  /\ availability = <<>>
  /\ tickets = <<>>
  /\ uuid_seq = 1
  /\ pc = [p \in Procs |-> "idle"]
  /\ frame = [p \in Procs |-> IdleFrame]
  /\ last = NoCall
  /\ InitSessionState
  /\ InitMainState

(* ------------------------------ operations ---------------------------- *)
\* add_teacher: one INSERT under a fresh uuid.
AddTeacher(p, timezone) ==
  /\ pc[p] = "idle"
  /\ RowsUsed < MaxRows
  /\ teachers' = Append(teachers, [teacher_id |-> Len(teachers) + 1, timezone |-> timezone])
  /\ last' = [NoCall EXCEPT !.op = "add_teacher", !.proc = p,
                            !.teacher_id = Len(teachers) + 1, !.kind = "ok"]
  /\ UNCHANGED <<availability, tickets, uuid_seq, pc, frame>>
  /\ UNCHANGED svars
  /\ UNCHANGED mvars

\* set_availability: one INSERT at the end of the availability table.  The id
\* is that of a teacher add_teacher returned (ids are uuids, not guessable).
SetAvailability(p, teacher_id, win) ==
  /\ pc[p] = "idle"
  /\ RowsUsed < MaxRows
  /\ GetTeacher(teachers, teacher_id) # NoTeacher
  /\ availability' = Append(availability,
                            [teacher_id |-> teacher_id, weekday |-> win.weekday,
                             start_hm |-> win.start_hm, end_hm |-> win.end_hm])
  /\ last' = [NoCall EXCEPT !.op = "set_availability", !.proc = p,
                            !.teacher_id = teacher_id, !.kind = "ok"]
  /\ UNCHANGED <<teachers, tickets, uuid_seq, pc, frame>>
  /\ UNCHANGED svars
  /\ UNCHANGED mvars

\* A search that reserves what it returns: the slot found is stored as a ticket.
FindNextSlotBooking(p, teacher_id, time, now, search_days, local_zone) ==
  /\ pc[p] = "idle"
  /\ LET r == FindNextAvailableSlot(teachers, availability, tickets,
                                    teacher_id, time, search_days, now, local_zone)
     IN  /\ last' = [NoCall EXCEPT !.op = "find_next_available_slot", !.proc = p,
                                  !.teacher_id = teacher_id, !.time = time, !.now = now,
                                  !.search_days = search_days, !.local_zone = local_zone,
                                  !.kind = r.kind, !.slot = r.slot]
         /\ tickets' = IF r.slot = None THEN tickets
                       ELSE Append(tickets,
                                   [ticket_id |-> 0, teacher_id |-> teacher_id,
                                    status |-> "SCHEDULED",
                                    scheduled_slot_utc |-> IsoFormat(AsUtc(r.slot))])
  /\ UNCHANGED <<teachers, availability, uuid_seq, pc, frame>>
  /\ UNCHANGED svars
  /\ UNCHANGED mvars

\* find_next_available_slot called on its own: reads, returns or raises.
FindNextSlot(p, teacher_id, time, now, search_days, local_zone) ==
  /\ pc[p] = "idle"
  /\ LET r == FindNextAvailableSlot(teachers, availability, tickets,
                                    teacher_id, time, search_days, now, local_zone)
     IN  last' = [NoCall EXCEPT !.op = "find_next_available_slot", !.proc = p,
                               !.teacher_id = teacher_id, !.time = time, !.now = now,
                               !.search_days = search_days, !.local_zone = local_zone,
                               !.kind = r.kind, !.slot = r.slot]
  /\ UNCHANGED <<teachers, availability, tickets, uuid_seq, pc, frame>>
  /\ UNCHANGED svars
  /\ UNCHANGED mvars

\* submit_ticket up to the search: the time argument is normalised, the
\* teacher looked up (ValueError when there is none) and the ticket id drawn.
SubmitBegin(p, teacher_id, time, now, question) ==
  /\ pc[p] = "idle"
  /\ RowsUsed < MaxRows
  /\ LET submit_time == NormalizeUtc(time, now)
         teacher == GetTeacher(teachers, teacher_id)
     IN  IF TeacherMissing(teacher)
         THEN /\ last' = [NoCall EXCEPT !.op = "submit_ticket", !.proc = p,
                                        !.teacher_id = teacher_id, !.time = time,
                                        !.now = now, !.search_days = DefaultSearchDays,
                                        !.question = question, !.kind = "ValueError"]
              /\ UNCHANGED <<uuid_seq, pc, frame>>
         ELSE /\ frame' = [frame EXCEPT ![p] =
                             [IdleFrame EXCEPT !.teacher_id = teacher_id, !.time = time,
                                               !.now = now, !.question = question,
                                               !.submit_time = submit_time,
                                               !.ticket_id = Uuid4(uuid_seq)]]
              /\ uuid_seq' = uuid_seq + 1
              /\ pc' = [pc EXCEPT ![p] = "search"]
              /\ last' = [NoCall EXCEPT !.op = "submit_ticket", !.proc = p,
                                        !.kind = "running"]
  /\ UNCHANGED <<teachers, availability, tickets>>
  /\ UNCHANGED svars
  /\ UNCHANGED mvars

\* A status that does not look at the slot.
StatusAlwaysScheduled(proposed_slot_local) == "SCHEDULED"

\* QUEUED without a slot, SCHEDULED with one.
StatusOf(proposed_slot_local) ==
  IF proposed_slot_local # None THEN "SCHEDULED" ELSE "QUEUED"

\* A slot text made with replace(tzinfo=pytz.UTC): the local wall fields
\* marked UTC.
SlotTextOfWall(proposed_slot_local) ==
  IF proposed_slot_local # None
  THEN IsoFormat(Aware(proposed_slot_local.wall, 0)) ELSE NullSlot

\* scheduled_slot_utc: NULL without a slot, else the slot in UTC as ISO text.
SlotTextOf(proposed_slot_local) ==
  IF proposed_slot_local # None THEN IsoFormat(AsUtc(proposed_slot_local)) ELSE NullSlot

\* submit_ticket's search: find_next_available_slot with the default horizon
\* reads the tables as they are now, and status and slot text are derived.
SubmitSearch(p) ==
  /\ pc[p] = "search"
  /\ \E local_zone \in ZoneReads(tickets, frame[p].teacher_id) :
     LET f == frame[p]
         r == FindNextAvailableSlot(teachers, availability, tickets, f.teacher_id,
                                    f.submit_time, DefaultSearchDays, f.now, local_zone)
     IN  IF r.kind # "ok"
         THEN /\ last' = [NoCall EXCEPT !.op = "submit_ticket", !.proc = p,
                                        !.teacher_id = f.teacher_id, !.time = f.time,
                                        !.now = f.now, !.search_days = DefaultSearchDays,
                                        !.question = f.question, !.kind = r.kind]
              /\ frame' = [frame EXCEPT ![p] = IdleFrame]
              /\ pc' = [pc EXCEPT ![p] = "idle"]
         ELSE /\ frame' = [frame EXCEPT ![p].local_zone = local_zone,
                                        ![p].proposed_slot_local = r.slot,
                                        ![p].scheduled_slot_utc = SlotTextOf(r.slot),
                                        ![p].status = StatusOf(r.slot)]
              /\ pc' = [pc EXCEPT ![p] = "insert"]
              /\ UNCHANGED last
  /\ UNCHANGED <<teachers, availability, tickets, uuid_seq>>
  /\ UNCHANGED svars
  /\ UNCHANGED mvars

\* INSERT INTO tickets: ticket_id is the PRIMARY KEY, so a row whose id is
\* already stored is refused (sqlite3.IntegrityError) and nothing is written.
PrimaryKeyFree(K, ticket_id) == \A i \in 1..Len(K) : K[i].ticket_id # ticket_id

\* An INSERT followed by an UPDATE that lacks the ticket_id in its WHERE
\* clause: the status and slot of the new ticket are written to every ticket
\* of the teacher.
SubmitInsertOverwriting(p) ==
  /\ pc[p] = "insert"
  /\ LET f == frame[p]
         row == [ticket_id |-> f.ticket_id, teacher_id |-> f.teacher_id,
                 status |-> f.status, scheduled_slot_utc |-> f.scheduled_slot_utc]
     IN  /\ tickets' = [i \in 1..(Len(tickets) + 1) |->
                          IF i > Len(tickets) THEN row
                          ELSE IF tickets[i].teacher_id = f.teacher_id
                          THEN [row EXCEPT !.ticket_id = tickets[i].ticket_id]
                          ELSE tickets[i]]
         /\ last' = [NoCall EXCEPT !.op = "submit_ticket", !.proc = p,
                                  !.teacher_id = f.teacher_id, !.time = f.time,
                                  !.now = f.now, !.search_days = DefaultSearchDays,
                                  !.local_zone = f.local_zone, !.question = f.question,
                                  !.kind = "ok", !.ticket_id = f.ticket_id,
                                  !.status = f.status, !.slot = f.proposed_slot_local]
  /\ frame' = [frame EXCEPT ![p] = IdleFrame]
  /\ pc' = [pc EXCEPT ![p] = "idle"]
  /\ UNCHANGED <<teachers, availability, uuid_seq>>
  /\ UNCHANGED svars
  /\ UNCHANGED mvars

\* submit_ticket's INSERT, commit and return value.
SubmitInsert(p) ==
  /\ pc[p] = "insert"
  /\ LET f == frame[p]
         call == [NoCall EXCEPT !.op = "submit_ticket", !.proc = p,
                               !.teacher_id = f.teacher_id, !.time = f.time,
                               !.now = f.now, !.search_days = DefaultSearchDays,
                               !.local_zone = f.local_zone, !.question = f.question]
     IN  IF PrimaryKeyFree(tickets, f.ticket_id)
         THEN /\ tickets' = Append(tickets,
                                   [ticket_id |-> f.ticket_id, teacher_id |-> f.teacher_id,
                                    status |-> f.status,
                                    scheduled_slot_utc |-> f.scheduled_slot_utc])
              /\ last' = [call EXCEPT !.kind = "ok", !.ticket_id = f.ticket_id,
                                      !.status = f.status, !.slot = f.proposed_slot_local]
         ELSE /\ last' = [call EXCEPT !.kind = "IntegrityError"]
              /\ UNCHANGED tickets
  /\ frame' = [frame EXCEPT ![p] = IdleFrame]
  /\ pc' = [pc EXCEPT ![p] = "idle"]
  /\ UNCHANGED <<teachers, availability, uuid_seq>>
  /\ UNCHANGED svars
  /\ UNCHANGED mvars

\* The steps process p can take.
Step(p) ==
  \/ \E tz \in Timezones : AddTeacher(p, tz)
  \/ \E t \in TeacherIdArgs, w \in WindowArgs : SetAvailability(p, t, w)
  \/ \E t \in TeacherIdArgs, x \in TimeArgs, n \in Clock, h \in SearchDaysArgs :
        \E z \in ZoneReads(tickets, t) :
          FindNextSlot(p, t, x, IF x = None THEN n ELSE 0, h, z)
  \/ \E t \in TeacherIdArgs, x \in TimeArgs, n \in Clock, q \in Questions :
        SubmitBegin(p, t, x, IF x = None THEN n ELSE 0, q)
  \/ SubmitSearch(p)
  \/ SubmitInsert(p)

\* Calls run one at a time: a single caller.
Next == Step(1)
Spec == Init /\ [][Next]_vars

\* The calls of one browser session on the session manager.
SpecSession == Init /\ [][NextSession]_vars

\* Concurrent submit_ticket calls: every caller's call is its three steps in
\* order, and the steps of different callers interleave; caller 1 also sets
\* teachers and windows up.
ConcTimeArgs == {Naive(MonNine), Aware(MonNineLate - 4 * Hour, 0 - 4 * Hour), Aware(SunEarly, 0)}
NextConc ==
  \/ \E tz \in Timezones : AddTeacher(1, tz)
  \/ \E t \in TeacherIdArgs, w \in WindowArgs : SetAvailability(1, t, w)
  \/ \E p \in Procs, t \in TeacherIdArgs, x \in ConcTimeArgs :
        SubmitBegin(p, t, x, 0, "help")
  \/ \E p \in Procs : SubmitSearch(p)
  \/ \E p \in Procs : SubmitInsert(p)
SpecConc == Init /\ [][NextConc]_vars

\* The searches of one teacher around the edges of the windows: the teacher
\* and the windows are set up first (one add_teacher call, then at most
\* MaxWindows set_availability calls), then come searches and submissions.
\* Monday 2018-10-29 12:30 UTC (08:30 in New York), 16:00 UTC (12:00 in New
\* York) and 02:30 UTC (Sunday 23:30 in Sao Paulo, 22:30 in New York).
MonEarly == 7 * Day + 12 * Hour + 30 * Minute
MonNoon == 7 * Day + 16 * Hour
SunLate == 7 * Day + 2 * Hour + 30 * Minute
FindTimeArgs ==
  {Naive(MonEarly), Aware(MonEarly - 4 * Hour, 0 - 4 * Hour), Naive(MonNoon), Naive(SunLate)}
\* Two overlapping Monday windows and a Sunday one.
FindWindowArgs ==
  {[weekday |-> 0, start_hm |-> 900, end_hm |-> 1200],
   [weekday |-> 0, start_hm |-> 1000, end_hm |-> 1300],
   [weekday |-> 6, start_hm |-> 30, end_hm |-> 1000]}
\* The availability tables that up to n set_availability calls for teacher 1 leave.
WindowRows(n) ==
  UNION {[1..k -> {[teacher_id |-> 1, weekday |-> w.weekday, start_hm |-> w.start_hm,
                    end_hm |-> w.end_hm] : w \in FindWindowArgs}] : k \in 0..n}

InitFind ==
  /\ \E tz \in Timezones : teachers = <<[teacher_id |-> 1, timezone |-> tz]>>
  /\ availability \in WindowRows(MaxWindows)
  /\ tickets = <<>>
  /\ uuid_seq = 1
  /\ pc = [p \in Procs |-> "idle"]
  /\ frame = [p \in Procs |-> IdleFrame]
  /\ last = NoCall
  /\ InitSessionState
  /\ InitMainState

NextFind ==
  \/ \E x \in FindTimeArgs, h \in SearchDaysArgs, z \in ZoneReads(tickets, 1) :
        FindNextSlot(1, 1, x, 0, h, z)
  \/ \E x \in FindTimeArgs : SubmitBegin(1, 1, x, 0, "help")
  \/ SubmitSearch(1)
  \/ SubmitInsert(1)
SpecFind == InitFind /\ [][NextFind]_vars

\* The class opened on a database file that already holds rows (CREATE TABLE
\* IF NOT EXISTS keeps them): a teacher, windows, and one SCHEDULED ticket
\* that another writer stored with a slot text without offset,
\* "2018-10-29T13:00:00" or "2018-10-29T14:00:00".
StoredTexts == {MonNine, MonNine + Hour}
InitStored ==
  /\ \E tz \in Timezones : teachers = <<[teacher_id |-> 1, timezone |-> tz]>>
  /\ availability \in WindowRows(MaxWindows)
  /\ \E w \in StoredTexts :
       tickets = <<[ticket_id |-> 0, teacher_id |-> 1, status |-> "SCHEDULED",
                    scheduled_slot_utc |-> IsoFormat(Naive(w))]>>
  /\ uuid_seq = 1
  /\ pc = [p \in Procs |-> "idle"]
  /\ frame = [p \in Procs |-> IdleFrame]
  /\ last = NoCall
  /\ InitSessionState
  /\ InitMainState
SpecStored == InitStored /\ [][NextFind]_vars

\* submit_ticket run from call to return with no other call in between:
\* the three steps above in one.
SubmitTicket(p, teacher_id, time, now, question) ==
  /\ pc[p] = "idle"
  /\ uuid_seq <= MaxTickets
  /\ \E local_zone \in ZoneReads(tickets, teacher_id) :
     LET submit_time == NormalizeUtc(time, now)
         teacher == GetTeacher(teachers, teacher_id)
         call == [NoCall EXCEPT !.op = "submit_ticket", !.proc = p,
                               !.teacher_id = teacher_id, !.time = time, !.now = now,
                               !.search_days = DefaultSearchDays,
                               !.local_zone = local_zone, !.question = question]
     IN  IF TeacherMissing(teacher)
         THEN /\ last' = [call EXCEPT !.local_zone = NotRead, !.kind = "ValueError"]
              /\ UNCHANGED <<tickets, uuid_seq>>
         ELSE LET ticket_id == Uuid4(uuid_seq)
                  r == FindNextAvailableSlot(teachers, availability, tickets, teacher_id,
                                             submit_time, DefaultSearchDays, now, local_zone)
              IN  /\ uuid_seq' = uuid_seq + 1
                  /\ IF PrimaryKeyFree(tickets, ticket_id)
                     THEN /\ tickets' = Append(tickets,
                                               [ticket_id |-> ticket_id,
                                                teacher_id |-> teacher_id,
                                                status |-> StatusOf(r.slot),
                                                scheduled_slot_utc |-> SlotTextOf(r.slot)])
                          /\ last' = [call EXCEPT !.kind = "ok", !.ticket_id = ticket_id,
                                                  !.status = StatusOf(r.slot),
                                                  !.slot = r.slot]
                     ELSE /\ last' = [call EXCEPT !.kind = "IntegrityError"]
                          /\ UNCHANGED tickets
  /\ UNCHANGED <<teachers, availability, pc, frame>>
  /\ UNCHANGED svars
  /\ UNCHANGED mvars

\* One teacher's queue filling up: the teacher and the windows are set up
\* as in SpecFind, then submit_ticket is called again and again, one call at
\* a time, every call with the submit_time of the first.
NextQueue ==
  \E x \in FindTimeArgs :
    /\ last = NoCall \/ last.time = x
    /\ SubmitTicket(1, 1, x, 0, "help")
SpecQueue == InitFind /\ [][NextQueue]_vars

\* Two teachers side by side: two add_teacher calls and one set_availability
\* call for each have run, with the same window or with different ones, then
\* come submissions and searches for either teacher, one call at a time.
PairTimeArgs == {Naive(MonEarly), Naive(SunLate)}
PairRows ==
  {<<[teacher_id |-> 1, weekday |-> w.weekday, start_hm |-> w.start_hm,
      end_hm |-> w.end_hm],
     [teacher_id |-> 2, weekday |-> v.weekday, start_hm |-> v.start_hm,
      end_hm |-> v.end_hm]>> : w \in FindWindowArgs, v \in FindWindowArgs}
InitPair ==
  /\ \E tz1 \in Timezones, tz2 \in Timezones :
       teachers = <<[teacher_id |-> 1, timezone |-> tz1],
                    [teacher_id |-> 2, timezone |-> tz2]>>
  /\ availability \in PairRows
  /\ tickets = <<>>
  /\ uuid_seq = 1
  /\ pc = [p \in Procs |-> "idle"]
  /\ frame = [p \in Procs |-> IdleFrame]
  /\ last = NoCall
  /\ InitSessionState
  /\ InitMainState
NextPair ==
  \/ \E t \in 1..2, x \in PairTimeArgs :
        Len(tickets) < MaxPairTickets /\ SubmitTicket(1, t, x, 0, "help")
  \/ \E t \in 1..2, x \in PairTimeArgs :
        \E z \in ZoneReads(tickets, t) : FindNextSlot(1, t, x, 0, DefaultSearchDays, z)
SpecPair == InitPair /\ [][NextPair]_vars

\* The parent engagement requests of one school.
InitEngage ==
  /\ teachers = <<>>
  /\ availability = <<>>
  /\ tickets = <<>>
  /\ uuid_seq = 1
  /\ pc = [p \in Procs |-> "idle"]
  /\ frame = [p \in Procs |-> IdleFrame]
  /\ last = NoCall
  /\ InitSessionState
  /\ db = SchoolDb
  /\ reply = NoReply
  /\ service = ServiceOf(EnvConfig)
SpecEngage == InitEngage /\ [][NextEngage]_vars

\* The users table and the role tables that authenticate reads.
InitAuth ==
  /\ teachers = <<>>
  /\ availability = <<>>
  /\ tickets = <<>>
  /\ uuid_seq = 1
  /\ pc = [p \in Procs |-> "idle"]
  /\ frame = [p \in Procs |-> IdleFrame]
  /\ last = NoCall
  /\ InitSessionState
  /\ \E role \in Roles, hash \in HashArgs, linked \in BOOLEAN, children \in 0..MaxChildren :
       db = AuthDb(role, hash, linked, children)
  /\ reply = NoReply
  /\ service = ServiceOf(EnvConfig)
SpecAuth == InitAuth /\ [][NextAuth]_vars

\* An AfterHoursService constructed with one of the configurations.
InitHours ==
  /\ teachers = <<>>
  /\ availability = <<>>
  /\ tickets = <<>>
  /\ uuid_seq = 1
  /\ pc = [p \in Procs |-> "idle"]
  /\ frame = [p \in Procs |-> IdleFrame]
  /\ last = NoCall
  /\ InitSessionState
  /\ db = EmptyDb
  /\ reply = NoReply
  /\ \E config \in ConfigArgs : service = ServiceOf(config)
SpecHours == InitHours /\ [][NextHours]_vars

\* The grades that the alerts are about.
InitAlerts ==
  /\ teachers = <<>>
  /\ availability = <<>>
  /\ tickets = <<>>
  /\ uuid_seq = 1
  /\ pc = [p \in Procs |-> "idle"]
  /\ frame = [p \in Procs |-> IdleFrame]
  /\ last = NoCall
  /\ InitSessionState
  /\ db = GradesDb
  /\ reply = NoReply
  /\ service = ServiceOf(EnvConfig)
SpecAlerts == InitAlerts /\ [][NextAlerts]_vars

(* ------------------------------- claims ------------------------------- *)
\* The rows of K that hold a slot for the teacher, and the instants they hold.
BookedRows(K, teacher_id) ==
  {i \in 1..Len(K) : K[i].teacher_id = teacher_id /\ ~K[i].scheduled_slot_utc.null}
BookedInstants(K, teacher_id) ==
  {Instant(FromIsoFormat(K[i].scheduled_slot_utc)) : i \in BookedRows(K, teacher_id)}
KnownTeacher(teacher_id) ==
  \E i \in 1..Len(teachers) : teachers[i].teacher_id = teacher_id
IsFind(call) == call.op = "find_next_available_slot"
IsSubmit(call) == call.op = "submit_ticket"

\* C1: under every interleaving of concurrent submit_ticket calls, no two
\* tickets of one teacher are SCHEDULED with the same scheduled_slot.
C1_NoDoubleBookingConcurrent ==
  \A i, j \in 1..Len(tickets) :
    (/\ i < j
     /\ tickets[i].teacher_id = tickets[j].teacher_id
     /\ tickets[i].status = "SCHEDULED"
     /\ tickets[j].status = "SCHEDULED")
    => tickets[i].scheduled_slot_utc # tickets[j].scheduled_slot_utc

\* C2: with calls run one at a time, no two tickets of a teacher hold the same
\* slot, and find_next_available_slot never returns an instant that a ticket
\* of that teacher holds.
C2_NoDoubleBooking ==
  /\ \A t \in TeacherIdArgs :
       \A i, j \in BookedRows(tickets, t) :
         i # j => Instant(FromIsoFormat(tickets[i].scheduled_slot_utc))
                    # Instant(FromIsoFormat(tickets[j].scheduled_slot_utc))
  /\ (IsFind(last) /\ last.slot # None)
       => Instant(last.slot) \notin BookedInstants(tickets, last.teacher_id)

\* Two tickets of one teacher hold slots, and a later search found a third.
C2_Witness ==
  /\ IsFind(last) /\ last.slot # None
  /\ Cardinality(BookedRows(tickets, last.teacher_id)) >= 2

\* The instant a call searches from, and the zone of its teacher.
FromInstant(call) == Instant(NormalizeUtc(call.time, call.now))
ZoneOf(teacher_id) ==
  teachers[CHOOSE i \in 1..Len(teachers) : teachers[i].teacher_id = teacher_id].timezone
\* The teacher-local datetime of x + d days.
LocalDay(teacher_id, x, d) == AsTimezone(Aware(x + d * Day, 0), ZoneOf(teacher_id))
\* The start instant of availability row i on the teacher-local date of x + d days.
StartOn(teacher_id, x, d, i) ==
  Instant(LocalStart(LocalDay(teacher_id, x, d), availability[i], ZoneOf(teacher_id)))
\* The (day offset, row) pairs of the teacher within h days of x whose row is
\* a window of that day's weekday.
Occurrences(teacher_id, x, h) ==
  {c \in (0..h) \X (1..Len(availability)) :
     /\ availability[c[2]].teacher_id = teacher_id
     /\ availability[c[2]].weekday = Weekday(LocalDay(teacher_id, x, c[1]))}
\* The instants of the occurrences that start at or after x and that no
\* ticket of the teacher holds.
SurvivingIn(K, teacher_id, x, h) ==
  {StartOn(teacher_id, x, c[1], c[2]) :
     c \in {o \in Occurrences(teacher_id, x, h) :
              /\ StartOn(teacher_id, x, o[1], o[2]) >= x
              /\ StartOn(teacher_id, x, o[1], o[2]) \notin BookedInstants(K, teacher_id)}}
Surviving(teacher_id, x, h) == SurvivingIn(tickets, teacher_id, x, h)

\* C3: for an existing teacher find_next_available_slot raises nothing, and
\* returns a slot if and only if some window occurrence within 0..H days
\* starts at or after the requested instant and is not held by a ticket.
C3_SlotIffCandidate ==
  (IsFind(last) /\ KnownTeacher(last.teacher_id))
  => /\ last.kind = "ok"
     /\ last.slot # None
          <=> Surviving(last.teacher_id, FromInstant(last), last.search_days) # {}

\* A search that found its only candidate on the last day offset of the horizon.
C3_Witness ==
  /\ IsFind(last) /\ KnownTeacher(last.teacher_id) /\ last.slot # None
  /\ \A c \in Occurrences(last.teacher_id, FromInstant(last), last.search_days) :
       StartOn(last.teacher_id, FromInstant(last), c[1], c[2]) = Instant(last.slot)
         => c[1] = last.search_days

\* A search that found nothing although the teacher has windows.
C3_WitnessNone ==
  /\ IsFind(last) /\ KnownTeacher(last.teacher_id) /\ last.kind = "ok"
  /\ last.slot = None
  /\ GetAvailabilityDf(availability, last.teacher_id) # <<>>

\* C4: a slot find_next_available_slot returns is the earliest surviving
\* candidate instant of the horizon, whatever the storage order of the windows.
C4_EarliestCandidate ==
  (IsFind(last) /\ last.slot # None)
  => \A c \in Surviving(last.teacher_id, FromInstant(last), last.search_days) :
       Instant(last.slot) <= c

\* C5: a slot returned by find_next_available_slot, or booked by
\* submit_ticket, is never earlier than the instant searched from.
C5_NotInPast ==
  ((IsFind(last) \/ IsSubmit(last)) /\ last.slot # None)
  => Instant(last.slot) >= FromInstant(last)

\* A search that found a slot after passing over a window start of the
\* first day that lay before the requested instant.
C5_Witness ==
  /\ IsFind(last) /\ last.slot # None
  /\ \E c \in Occurrences(last.teacher_id, FromInstant(last), 0) :
       StartOn(last.teacher_id, FromInstant(last), 0, c[2]) < FromInstant(last)

\* C6: a returned slot, read in the teacher's zone, has the weekday and the
\* time of day of the start of one of the teacher's windows.
C6_OnWindowStart ==
  ((IsFind(last) \/ IsSubmit(last)) /\ last.slot # None)
  => LET loc == AsTimezone(last.slot, ZoneOf(last.teacher_id))
     IN  \E i \in 1..Len(availability) :
           /\ availability[i].teacher_id = last.teacher_id
           /\ availability[i].weekday = Weekday(loc)
           /\ loc.wall % Day = ParseHm(availability[i].start_hm)[1] * Hour
                                 + ParseHm(availability[i].start_hm)[2] * Minute

\* C7: every ticket is SCHEDULED exactly when it holds a slot and QUEUED
\* exactly when it holds none, and the ticket a submit_ticket call has just
\* stored is SCHEDULED exactly when, over the tickets stored before it, some
\* window occurrence of the horizon was still free at submission.
C7_StatusIffSlot ==
  /\ \A i \in 1..Len(tickets) :
       /\ tickets[i].status = "SCHEDULED" <=> ~tickets[i].scheduled_slot_utc.null
       /\ tickets[i].status = "QUEUED" <=> tickets[i].scheduled_slot_utc.null
  /\ (IsSubmit(last) /\ last.kind = "ok")
       => LET n == Len(tickets)
          IN  /\ tickets[n].ticket_id = last.ticket_id
              /\ tickets[n].status = last.status
              /\ tickets[n].status = "SCHEDULED"
                   <=> SurvivingIn(SubSeq(tickets, 1, n - 1), last.teacher_id,
                                   FromInstant(last), DefaultSearchDays) # {}

\* A submission has just been scheduled while an earlier ticket is queued.
C7_Witness ==
  /\ IsSubmit(last) /\ last.kind = "ok" /\ last.status = "SCHEDULED"
  /\ \E i \in 1..Len(tickets) : tickets[i].status = "QUEUED"

\* C8: a submit_ticket or find_next_available_slot call for a teacher_id
\* that no teachers row has raises an error to its caller, and leaves the
\* three tables as they were.
C8_UnknownTeacherFails ==
  [][(/\ last' # last
      /\ IsFind(last') \/ IsSubmit(last')
      /\ last'.kind # "running"
      /\ ~KnownTeacher(last'.teacher_id))
     => /\ last'.kind = "ValueError"
        /\ last'.slot = None
        /\ tickets' = tickets
        /\ teachers' = teachers
        /\ availability' = availability]_vars

\* A submit_ticket call has failed for an unknown teacher while tickets are stored.
C8_Witness ==
  /\ IsSubmit(last) /\ last.kind = "ValueError" /\ ~KnownTeacher(last.teacher_id)
  /\ tickets # <<>>

\* The words that are empty after trimming.
BlankQuestions == {"", "  "}

\* C9: a submit_ticket call whose question is empty after trimming fails
\* with an error and stores no ticket.
C9_BlankQuestionFails ==
  (IsSubmit(last) /\ last.question \in BlankQuestions /\ last.kind # "running")
  => /\ last.kind # "ok"
     /\ \A i \in 1..Len(tickets) : tickets[i].ticket_id # last.ticket_id

\* C10: a submit_ticket call for an existing teacher with a non-blank
\* question returns normally and appends exactly one ticket, under an id no
\* stored ticket has, QUEUED when the search found no slot.
C10_OneNewTicket ==
  [][(/\ last' # last
      /\ IsSubmit(last')
      /\ last'.kind # "running"
      /\ KnownTeacher(last'.teacher_id)
      /\ last'.question \notin BlankQuestions)
     => /\ last'.kind = "ok"
        /\ Len(tickets') = Len(tickets) + 1
        /\ SubSeq(tickets', 1, Len(tickets)) = tickets
        /\ tickets'[Len(tickets')].ticket_id = last'.ticket_id
        /\ \A i \in 1..Len(tickets) : tickets[i].ticket_id # last'.ticket_id
        /\ tickets'[Len(tickets')].teacher_id = last'.teacher_id
        /\ last'.slot = None => tickets'[Len(tickets')].status = "QUEUED"]_vars

\* A second ticket has been stored, queued for want of a slot.
C10_Witness ==
  /\ IsSubmit(last) /\ last.kind = "ok" /\ last.question \notin BlankQuestions
  /\ last.status = "QUEUED" /\ last.slot = None
  /\ Len(tickets) >= 2

\* The teacher has no availability row.
NoWindows(teacher_id) ==
  \A i \in 1..Len(availability) : availability[i].teacher_id # teacher_id
\* The loop passes of the find_next_available_slot call that returned last.
PassesOf(call) ==
  SearchPasses(teachers, availability, tickets, call.teacher_id, call.time,
               call.search_days, call.now, call.local_zone)

\* C11: for a teacher without availability windows find_next_available_slot
\* returns no slot, for every instant and horizon asked, without a pass of its
\* loop over the days, and submit_ticket stores a QUEUED ticket without slot.
C11_NoWindowsNoSlot ==
  /\ (IsFind(last) /\ KnownTeacher(last.teacher_id) /\ NoWindows(last.teacher_id))
       => /\ last.kind = "ok"
          /\ last.slot = None
          /\ PassesOf(last).days = 0
  /\ (IsSubmit(last) /\ last.kind = "ok" /\ NoWindows(last.teacher_id))
       => /\ last.status = "QUEUED"
          /\ last.slot = None
          /\ \A i \in 1..Len(tickets) :
               tickets[i].ticket_id = last.ticket_id
                 => tickets[i].status = "QUEUED" /\ tickets[i].scheduled_slot_utc.null

\* A search over the default horizon found nothing for a teacher without
\* windows, who has a queued ticket, while another teacher has a window.
C11_Witness ==
  /\ IsFind(last) /\ KnownTeacher(last.teacher_id) /\ NoWindows(last.teacher_id)
  /\ last.search_days = DefaultSearchDays /\ last.slot = None
  /\ availability # <<>>
  /\ \E i \in 1..Len(tickets) :
       tickets[i].teacher_id = last.teacher_id /\ tickets[i].status = "QUEUED"

\* What a find_next_available_slot call with the arguments of call gets on
\* the tables T, A, K.
Rerun(T, A, K, call) ==
  FindNextAvailableSlot(T, A, K, call.teacher_id, call.time, call.search_days,
                        call.now, call.local_zone)

\* C12: a find_next_available_slot call leaves the teachers, availability
\* and tickets tables as they were, and the same call made again right
\* after it, on the tables it left, gets the result it got.
C12_PureRead ==
  [][(IsFind(last') /\ pc' = pc)
     => /\ teachers' = teachers
        /\ availability' = availability
        /\ tickets' = tickets
        /\ Rerun(teachers', availability', tickets', last')
             = [kind |-> last'.kind, slot |-> last'.slot]]_vars

\* A search has returned a slot for a teacher who has a booked ticket.
C12_Witness ==
  /\ IsFind(last) /\ last.kind = "ok" /\ last.slot # None
  /\ BookedRows(tickets, last.teacher_id) # {}
  /\ last.time = None

\* C13: when the instant searched from is itself the start of a window
\* occurrence that no ticket holds, find_next_available_slot returns that
\* very instant, not a later start.
C13_StartInclusive ==
  (/\ IsFind(last) /\ KnownTeacher(last.teacher_id)
   /\ FromInstant(last) \in Surviving(last.teacher_id, FromInstant(last), last.search_days))
  => /\ last.slot # None
     /\ Instant(last.slot) = FromInstant(last)

\* The rows of the teacher's windows, and a time of day "HH:MM" in seconds.
WindowRowsOf(teacher_id) ==
  {i \in 1..Len(availability) : availability[i].teacher_id = teacher_id}
SecondsOf(hm) == ParseHm(hm)[1] * Hour + ParseHm(hm)[2] * Minute
\* The start instant of window row i on the teacher-local date that lies d
\* days after the local date of instant x.
StartAfterDays(teacher_id, x, d, i) ==
  LET loc == LocalDay(teacher_id, x, 0)
  IN  Instant(Localize((DateOf(loc) + d) * Day + SecondsOf(availability[i].start_hm),
                       ZoneOf(teacher_id)))

\* C14: for a teacher whose only window is on one weekday and who has no
\* booked ticket, a search over a horizon of a week or more from an instant of
\* that weekday returns the window's start of the same local day when the
\* instant lies before it, and the window's start seven local days later when
\* the instant lies at or after the window's end.
C14_SameDayOrNextWeek ==
  (/\ IsFind(last) /\ KnownTeacher(last.teacher_id)
   /\ Cardinality(WindowRowsOf(last.teacher_id)) = 1
   /\ BookedRows(tickets, last.teacher_id) = {}
   /\ last.search_days >= 7)
  => LET t == last.teacher_id
         x == FromInstant(last)
         i == CHOOSE j \in WindowRowsOf(t) : TRUE
         loc == LocalDay(t, x, 0)
         tod == loc.wall % Day
     IN  Weekday(loc) = availability[i].weekday
         => /\ tod < SecondsOf(availability[i].start_hm)
                 => last.slot # None /\ Instant(last.slot) = StartAfterDays(t, x, 0, i)
            /\ tod >= SecondsOf(availability[i].end_hm)
                 => last.slot # None /\ Instant(last.slot) = StartAfterDays(t, x, 7, i)

\* C15: no step of submit_ticket or find_next_available_slot removes a
\* ticket or changes one that is stored: its status and scheduled slot stay
\* what they were at creation, a QUEUED ticket is never promoted and a
\* SCHEDULED one keeps its slot.
C15_TicketsImmutable ==
  [][/\ Len(tickets') >= Len(tickets)
     /\ \A i \in 1..Len(tickets) :
          /\ tickets'[i].ticket_id = tickets[i].ticket_id
          /\ tickets'[i].status = tickets[i].status
          /\ tickets'[i].scheduled_slot_utc = tickets[i].scheduled_slot_utc]_vars

\* A teacher's ticket is still QUEUED after a later submission for the same
\* teacher found a slot and was SCHEDULED, and a search ran after both.
C15_Witness ==
  /\ IsFind(last)
  /\ \E i, j \in 1..Len(tickets) :
       /\ i < j
       /\ tickets[i].teacher_id = tickets[j].teacher_id
       /\ tickets[i].status = "QUEUED" /\ tickets[i].scheduled_slot_utc.null
       /\ tickets[j].status = "SCHEDULED"

MarkedUtc(t) ==
  IF t.kind = "naive" THEN Aware(t.wall, 0) ELSE Aware(t.wall - t.off, 0)
\* The tickets stored before the submit_ticket call that returned last.
TicketsBefore(call) == SelectSeq(tickets, LAMBDA k : k.ticket_id # call.ticket_id)

\* C17: a call given a naive datetime, or an aware one in another zone, gets
\* what the same call gets when given that datetime marked UTC: the same slot
\* from find_next_available_slot, the same slot and status from submit_ticket.
C17_NaiveIsUtc ==
  /\ (IsFind(last) /\ last.time # None)
       => Rerun(teachers, availability, tickets, [last EXCEPT !.time = MarkedUtc(last.time)])
            = [kind |-> last.kind, slot |-> last.slot]
  /\ (IsSubmit(last) /\ last.kind = "ok" /\ last.time # None)
       => LET r == Rerun(teachers, availability, TicketsBefore(last),
                         [last EXCEPT !.time = MarkedUtc(last.time)])
          IN  /\ r.kind = "ok"
              /\ r.slot = last.slot
              /\ last.status = IF r.slot # None THEN "SCHEDULED" ELSE "QUEUED"

\* A submission with a naive datetime was scheduled after an earlier ticket.
C17_Witness ==
  /\ IsSubmit(last) /\ last.kind = "ok" /\ last.time.kind = "naive"
  /\ last.status = "SCHEDULED"
  /\ BookedRows(TicketsBefore(last), last.teacher_id) # {}

\* C18: what submit_ticket returns is what it stored: exactly one ticket has
\* the returned ticket_id, its status is the returned status, the returned
\* local slot is present exactly when that status is SCHEDULED, and it is then
\* the instant of the stored scheduled_slot_utc, which is written in UTC.
C18_ReturnAgreesWithStored ==
  (IsSubmit(last) /\ last.kind = "ok")
  => LET rows == {i \in 1..Len(tickets) : tickets[i].ticket_id = last.ticket_id}
     IN  /\ Cardinality(rows) = 1
         /\ \A i \in rows :
              /\ tickets[i].teacher_id = last.teacher_id
              /\ tickets[i].status = last.status
              /\ last.slot # None <=> last.status = "SCHEDULED"
              /\ last.slot = None <=> tickets[i].scheduled_slot_utc.null
              /\ last.slot # None
                   => /\ tickets[i].scheduled_slot_utc.kind = "aware"
                      /\ tickets[i].scheduled_slot_utc.off = 0
                      /\ Instant(FromIsoFormat(tickets[i].scheduled_slot_utc))
                           = Instant(last.slot)

\* A submission returned a local slot whose UTC offset is not zero, after
\* an earlier submission for the same teacher was stored.
C18_Witness ==
  /\ IsSubmit(last) /\ last.kind = "ok" /\ last.slot # None /\ last.slot.off # 0
  /\ \E i \in 1..Len(tickets) :
       tickets[i].teacher_id = last.teacher_id /\ tickets[i].ticket_id # last.ticket_id

\* C19: whatever windows the teacher has, overlapping or duplicated ones
\* included, a find_next_available_slot call returns (a slot or None, no
\* exception) after at most search_days + 1 passes over the days and at most
\* (search_days + 1) x (number of the teacher's windows) window starts examined.
C19_BoundedSearch ==
  (IsFind(last) /\ KnownTeacher(last.teacher_id))
  => /\ last.kind = "ok"
     /\ PassesOf(last).days <= last.search_days + 1
     /\ PassesOf(last).candidates
          <= (last.search_days + 1) * Cardinality(WindowRowsOf(last.teacher_id))

\* A search over two windows of one weekday that overlap (or are the same
\* window stored twice) examined both starts and found none to return.
C19_Witness ==
  /\ IsFind(last) /\ KnownTeacher(last.teacher_id) /\ last.slot = None
  /\ PassesOf(last).candidates = 2
  /\ \E i, j \in WindowRowsOf(last.teacher_id) :
       /\ i < j
       /\ availability[i].weekday = availability[j].weekday
       /\ availability[j].start_hm < availability[i].end_hm
       /\ availability[i].start_hm < availability[j].end_hm

\* No user is stored: the key is not set, or it holds None.
NoSession(st) == "current_session" \notin st.keys \/ st.current_session = NoUser
\* The step is a SessionManager call of the operation op.
SessionCall(op) == called' # called /\ called'.op = op

\* C20: login(u) leaves current_session = u and last_activity set, and an
\* is_logged_in call that follows it within the timeout returns True; logout
\* leaves both keys None; while no user is stored is_logged_in returns False
\* and only login stores one; init_session on a fresh session leaves both keys
\* None, so a freshly initialised session is not logged in.
C20_LoginLogout ==
  [][/\ SessionCall("login")
          => /\ session_state'.current_session = called'.user
             /\ called'.user # NoUser
             /\ session_state'.last_activity = clock
             /\ session_state'.keys = {"current_session", "last_activity"}
     /\ (SessionCall("is_logged_in") /\ called.op = "login"
           /\ clock - called.at <= SessionTimeoutMinutes)
          => /\ called'.result = TRUE
             /\ session_state'.current_session = called.user
     /\ SessionCall("logout")
          => /\ session_state'.current_session = NoUser
             /\ session_state'.last_activity = NoTime
             /\ session_state'.keys = {"current_session", "last_activity"}
     /\ (SessionCall("is_logged_in") /\ NoSession(session_state))
          => called'.result = FALSE /\ NoSession(session_state')
     /\ (NoSession(session_state) /\ ~NoSession(session_state'))
          => SessionCall("login")
     /\ (SessionCall("init_session") /\ session_state = EmptySessionState)
          => /\ session_state'.current_session = NoUser
             /\ session_state'.last_activity = NoTime
             /\ session_state'.keys = {"current_session", "last_activity"}]_vars

\* is_logged_in has returned True for a stored user at a clock reading
\* later than the timeout, and last_activity is that reading.
C20_Witness ==
  /\ called.op = "is_logged_in" /\ called.result = TRUE
  /\ session_state.current_session \in UserData
  /\ session_state.last_activity = called.at
  /\ called.at > SessionTimeoutMinutes

\* C25: is_logged_in on a session that holds a user, called strictly more
\* than SESSION_TIMEOUT_MINUTES after last_activity, leaves both keys None as
\* logout does and returns False; called with a gap of at most the timeout it
\* returns True, keeps the user and sets last_activity to the time of the
\* call, so the session goes on as long as the gaps stay within the timeout.
C25_TimeoutBoundary ==
  [][(/\ SessionCall("is_logged_in")
      /\ ~NoSession(session_state)
      /\ session_state.last_activity # NoTime)
     => /\ clock - session_state.last_activity > SessionTimeoutMinutes
             => /\ called'.result = FALSE
                /\ session_state'.current_session = NoUser
                /\ session_state'.last_activity = NoTime
                /\ session_state'.keys = {"current_session", "last_activity"}
        /\ clock - session_state.last_activity <= SessionTimeoutMinutes
             => /\ called'.result = TRUE
                /\ session_state'.current_session = session_state.current_session
                /\ session_state'.last_activity = clock]_vars

\* is_logged_in found a user whose last activity, later than the start of
\* the clock, lay one minute more than the timeout back, and cleared the session.
C25_Witness ==
  /\ called.op = "is_logged_in" /\ called.user \in UserData
  /\ called.since > 0
  /\ called.at - called.since = SessionTimeoutMinutes + 1
  /\ called.result = FALSE
  /\ session_state.current_session = NoUser /\ session_state.last_activity = NoTime

\* The value a key of the session state holds as Python sees it after
\* init_session: None when the key was not set.
IsNoneUser(st) == "current_session" \notin st.keys \/ st.current_session = NoUser
IsNoneTime(st) == "last_activity" \notin st.keys \/ st.last_activity = NoTime

\* C30: in every state that init_session, login, logout and is_logged_in
\* reach, current_session is None exactly when last_activity is None, and an
\* init_session call leaves a key that is set with the value it held.
C30_SessionKeysAgree ==
  [][/\ IsNoneUser(session_state') <=> IsNoneTime(session_state')
     /\ SessionCall("init_session")
          => /\ "current_session" \in session_state.keys
                  => session_state'.current_session = session_state.current_session
             /\ "last_activity" \in session_state.keys
                  => session_state'.last_activity = session_state.last_activity]_vars

\* init_session has been called on a session that holds a user and a last
\* activity later than the start, and both are still there.
C30_Witness ==
  /\ called.op = "init_session"
  /\ session_state.current_session \in UserData
  /\ session_state.last_activity > 0

\* C24: when submit_ticket is called repeatedly for one teacher with one
\* submit_time, one call at a time, the slots of the tickets are pairwise
\* distinct and each is strictly later than those of the calls before it, and
\* after a call that was QUEUED every later call is QUEUED too.
C24_SuccessiveSlotsLater ==
  \A i, j \in 1..Len(tickets) :
    (i < j /\ tickets[i].teacher_id = tickets[j].teacher_id)
    => /\ (tickets[i].status = "SCHEDULED" /\ tickets[j].status = "SCHEDULED")
            => Instant(FromIsoFormat(tickets[i].scheduled_slot_utc))
                 < Instant(FromIsoFormat(tickets[j].scheduled_slot_utc))
       /\ tickets[i].status = "QUEUED" => tickets[j].status = "QUEUED"

\* Other end times a window could have, and the availability table with the
\* end time of row i replaced by ends[i].
EndArgs == {1000, 1200, 2359}
WithEnds(A, ends) == [i \in 1..Len(A) |-> [A[i] EXCEPT !.end_hm = ends[i]]]

\* C28: what find_next_available_slot returns does not depend on the end
\* time of any window (the same call over the same teachers and tickets, with
\* any other end times in the availability rows, returns the same), and a slot
\* it returns is, in the teacher's zone, the start of one of the teacher's
\* windows: its weekday and its time of day.
C28_EndTimeIrrelevant ==
  (IsFind(last) /\ KnownTeacher(last.teacher_id))
  => /\ \A ends \in [1..Len(availability) -> EndArgs] :
          Rerun(teachers, WithEnds(availability, ends), tickets, last)
            = [kind |-> last.kind, slot |-> last.slot]
     /\ last.slot # None
          => \E i \in WindowRowsOf(last.teacher_id) :
               LET loc == AsTimezone(last.slot, ZoneOf(last.teacher_id))
               IN  /\ Weekday(loc) = availability[i].weekday
                   /\ loc.wall % Day = SecondsOf(availability[i].start_hm)

\* The windows of a teacher as (weekday, start, end) triples.
WindowsOf(teacher_id) ==
  {<<availability[i].weekday, availability[i].start_hm, availability[i].end_hm>> :
     i \in WindowRowsOf(teacher_id)}
\* What a search for teacher_id from x over h days gets on the tickets K.
FindOn(K, teacher_id, x, h) ==
  FindNextAvailableSlot(teachers, availability, K, teacher_id, x, h, 0, NotRead)

\* C29: a submit_ticket call for one teacher leaves what
\* find_next_available_slot returns for every other teacher as it was, for
\* every instant and horizon asked, also when both teachers have the same
\* windows and the first holds the slot the other would get.
C29_TeachersIsolated ==
  [][(last' # last /\ IsSubmit(last') /\ last'.kind = "ok")
     => /\ Len(tickets') = Len(tickets) + 1
        /\ \A b \in 1..Len(teachers) :
             b # last'.teacher_id
             => \A x \in FindTimeArgs, h \in SearchDaysArgs :
                  FindOn(tickets', b, x, h) = FindOn(tickets, b, x, h)]_vars

\* A second submission of one teacher has been scheduled, and another
\* teacher with the same windows in the same zone would be given, from the
\* same instant, the slot that the first teacher's earlier ticket holds.
C29_Witness ==
  /\ IsSubmit(last) /\ last.kind = "ok" /\ last.status = "SCHEDULED"
  /\ \E b \in 1..Len(teachers) :
       /\ b # last.teacher_id
       /\ WindowsOf(b) = WindowsOf(last.teacher_id)
       /\ ZoneOf(b) = ZoneOf(last.teacher_id)
       /\ FindOn(tickets, b, last.time, DefaultSearchDays).slot # None
       /\ \E i \in BookedRows(tickets, last.teacher_id) :
            /\ tickets[i].ticket_id # last.ticket_id
            /\ Instant(FromIsoFormat(tickets[i].scheduled_slot_utc))
                 = Instant(FindOn(tickets, b, last.time, DefaultSearchDays).slot)

\* The rows of EngagementRequests that have the id.
RequestRows(D, request_id) ==
  {i \in 1..Len(D.EngagementRequests) : D.EngagementRequests[i].request_id = request_id}

\* C23: what ParentEngagementService.create_request reports as request_id is
\* the request_id of the row the call inserted: the newest row of
\* EngagementRequests has that id, and no other row has it.
C23_ReturnsNewRequestId ==
  (reply.op = "create_request" /\ reply.kind = "ok")
  => RequestRows(db, reply.result) = {Len(db.EngagementRequests)}

\* The teacher operations of the service.
TeacherOps == {"approve_request", "reject_request", "respond_to_request"}
\* A request with the id is stored and is assigned to the teacher.
OwnsRequest(D, request_id, teacher_id) ==
  \E i \in RequestRows(D, request_id) : D.EngagementRequests[i].teacher_id = teacher_id

\* C26: a call of approve_request, reject_request or respond_to_request
\* changes the stored requests only when a request with the given id is
\* stored and is assigned to the calling teacher, and then changes nothing
\* but the status and teacher_response of that request; in every other case
\* it returns success=False and leaves the database as it was.
C26_OnlyOwnTeacherChanges ==
  [][(reply'.op \in TeacherOps /\ (reply' # reply \/ db' # db))
     => LET owns == OwnsRequest(db, reply'.request_id, reply'.teacher_id)
            before == db.EngagementRequests
            after == db'.EngagementRequests
        IN  /\ ~owns => /\ reply'.kind = "ok" /\ reply'.success = FALSE
                        /\ db' = db
            /\ Len(after) = Len(before)
            /\ \A i \in 1..Len(before) :
                 /\ [after[i] EXCEPT !.status = "", !.teacher_response = NoText]
                      = [before[i] EXCEPT !.status = "", !.teacher_response = NoText]
                 /\ after[i] # before[i]
                      => owns /\ before[i].request_id = reply'.request_id]_vars

\* A teacher's call on a request of another teacher has failed, after that
\* request had been approved and answered by the teacher it is assigned to.
C26_Witness ==
  /\ reply.op \in TeacherOps /\ reply.success = FALSE
  /\ TeacherJoins(db, reply.teacher_id)
  /\ \E i \in RequestRows(db, reply.request_id) :
       /\ TeacherJoins(db, db.EngagementRequests[i].teacher_id)
       /\ db.EngagementRequests[i].teacher_id # reply.teacher_id
       /\ db.EngagementRequests[i].status = "approved"
       /\ db.EngagementRequests[i].teacher_response # NoText

\* The users with the email of the call, and whether the password of the call
\* verifies against what is stored for one of them: the stored text is the
\* bcrypt hash of that password under some salt.
UsersWithEmail == {i \in 1..Len(db.Users) : db.Users[i].email = reply.email}
PasswordVerifies(i) ==
  \E salt \in SaltArgs : db.Users[i].password_hash = HashPw(reply.password, salt)
\* The ids in the column of the rows of table that have value in the column by.
IdsOf(table, column, by, value) ==
  {table[i][column] : i \in {j \in 1..Len(table) : table[j][by] = value}}
\* id is the one id of the set, or None when the set is empty.
TheIdOf(ids, id) == IF ids = {} THEN id = NoId ELSE ids = {id}
SeqRange(q) == {q[i] : i \in 1..Len(q)}

\* C21: authenticate returns None, after get_user_by_email alone, when no
\* user has the email or the password does not verify against the stored
\* hash; else it returns the user's user_id, name, email and role and the ids
\* of the role: student_id for a student, parent_id and student_ids for a
\* parent, teacher_id for a teacher, nothing more for another role.
C21_AuthenticateContract ==
  reply.op = "authenticate" =>
    IF \A i \in UsersWithEmail : ~PasswordVerifies(i)
    THEN /\ ~reply.success
         /\ reply.data = NoSessionData
         /\ reply.lookups = <<"get_user_by_email">>
    ELSE LET user == db.Users[CHOOSE i \in UsersWithEmail : TRUE]
             data == reply.data
             common == {"user_id", "name", "email", "role"}
         IN  /\ reply.success
             /\ data.user_id = user.user_id /\ data.name = user.name
             /\ data.email = user.email /\ data.role = user.role
             /\ user.role = "student" =>
                  /\ DOMAIN data = common \cup {"student_id"}
                  /\ TheIdOf(IdsOf(db.Students, "student_id", "user_id", user.user_id),
                             data.student_id)
             /\ user.role = "parent" =>
                  /\ DOMAIN data = common \cup {"parent_id", "student_ids"}
                  /\ TheIdOf(IdsOf(db.Parents, "parent_id", "user_id", user.user_id),
                             data.parent_id)
                  /\ SeqRange(data.student_ids)
                       = IdsOf(db.Parent_Student, "student_id", "parent_id", data.parent_id)
                  /\ Len(data.student_ids) = Cardinality(SeqRange(data.student_ids))
             /\ user.role = "teacher" =>
                  /\ DOMAIN data = common \cup {"teacher_id"}
                  /\ TheIdOf(IdsOf(db.Teachers, "teacher_id", "user_id", user.user_id),
                             data.teacher_id)
             /\ user.role \notin {"student", "parent", "teacher"} =>
                  DOMAIN data = common

\* A parent with two children has signed in with the password whose hash is
\* stored (C21).
C21_Witness ==
  /\ reply.op = "authenticate" /\ reply.success
  /\ reply.data.role = "parent" /\ Len(reply.data.student_ids) = 2

\* The wall-clock time of day, in the configured zone, of the call that
\* returned last.
CallTimeOfDay(config, now) == (now + UtcOffset(config.timezone, now)) % Day

\* C22: create_request raises ValueError and hands nothing to the repository
\* when the feature is disabled, when the time of the call is before the
\* start or after the end of the configured window, when the message is
\* empty after trimming, or when neither student_id nor parent_id is given;
\* in every other case the repository receives exactly one more record, and
\* its status is 'open'.
C22_CreateRequestGuards ==
  [][reply'.op = "after_hours.create_request" =>
       LET config == service.config
           time == CallTimeOfDay(config, reply'.now)
           refused == \/ ~config.feature_enabled
                      \/ time < config.start_time \/ time > config.end_time
                      \/ \A i \in 1..Len(reply'.message) : reply'.message[i] = " "
                      \/ reply'.student_id = NoId /\ reply'.parent_id = NoId
           before == service.repository
           after == service'.repository
       IN  IF refused
           THEN reply'.kind = "ValueError" /\ after = before
           ELSE /\ reply'.kind = "ok"
                /\ Len(after) = Len(before) + 1
                /\ SubSeq(after, 1, Len(before)) = before
                /\ after[Len(after)].status = "open"]_vars

\* A request made at the very end of the window has been handed to the
\* repository (C22).
C22_Witness ==
  /\ reply.op = "after_hours.create_request" /\ reply.kind = "ok"
  /\ Len(service.repository) = 1
  /\ CallTimeOfDay(service.config, reply.now) = service.config.end_time

\* Two rows of Alerts are about the same student, alert type and course.
SameAlertKey(a, b) ==
  a.student_id = b.student_id /\ a.alert_type = b.alert_type /\ a.course_id = b.course_id

====
